---- MODULE Spec2Model ----
(***************************************************************************)
(* BitsperWatch firmware (esp32/src): the control loop of main.cpp, the    *)
(* notification presenter, and the three reconnecting links (WiFi manager, *)
(* WebSocket client, BLE client), as one state machine.                    *)
(*                                                                         *)
(* Time: `now` is the value millis() returns.  A control-loop iteration    *)
(* first lets time pass (the delay(10) that ends the previous iteration    *)
(* plus whatever else elapsed) and then runs the body of loop(); blocking  *)
(* delay() calls inside handlers advance `now` where the code performs     *)
(* them.  Driver callbacks and interrupts run between iterations.          *)
(*                                                                         *)
(* Handlers are operators from a state record s to a state record, so a    *)
(* handler that calls other handlers is their composition, in code order.  *)
(***************************************************************************)
EXTENDS Integers, Sequences, FiniteSets, TLC

VARIABLES
    now,    \* millis()
    pc,     \* position of the Arduino main task: "boot", "loop", "setup_connect", "loop_connect", "restarted"
    main,   \* globals of main.cpp
    wifi,   \* fields of WiFiManager_ (WifiMgr)
    ws,     \* fields of BitsperBoxClient (WsClient)
    ble,    \* fields of BitsperBoxBLEClient (BleClient)
    drv,    \* what the drivers hold: WiFi.status(), the socket, the BLE link and scan
    disp,   \* what the LCD shows
    out,    \* the external calls (display, driver, send) made by the last step, in order
    iter    \* iterations of loop() so far

vars == <<now, pc, main, wifi, ws, ble, drv, disp, out, iter>>

----------------------------------------------------------------------------
(* Program constants *)

NOTIFICATION_TIMEOUT == 60000
ALERT_BLINK_INTERVAL == 500
LONG_PRESS_TIME == 3000
WIFI_CONNECT_TIMEOUT == 15000
BLE_SCAN_INTERVAL == 5000
BLE_SERVER_NAME == "BitsperBox"
TABLE_SIZE == 16
TYPE_SIZE == 32
MESSAGE_SIZE == 256
PRIORITY_SIZE == 16
BLE_RECONNECT_DELAY == 3000
BLE_MAX_DELAY == 30000
WIFI_MIN_BACKOFF == 1000
WIFI_MAX_BACKOFF == 30000
WIFI_MAX_RECONNECT_ATTEMPTS == 10
WS_MIN_BACKOFF == 1000
WS_MAX_BACKOFF == 30000
WS_HEARTBEAT_INTERVAL == 20000
WS_WATCHDOG_TIMEOUT == 60000
RSSI_CHECK_INTERVAL == 30000
RESTART_DELAY == 3000
BLE_DISPLAY_UPDATE_INTERVAL == 500
BLE_JSON_BUFFER == 512

----------------------------------------------------------------------------
(* unsigned long arithmetic on millis() values.  Every timestamp a run of   *)
(* the model compares lies in the past of `now` or at most one backoff      *)
(* ahead of it; a difference taken against a timestamp that lies ahead      *)
(* wraps to a value above every threshold of the program, which HugeElapsed *)
(* stands for.                                                              *)

HugeElapsed == 2147483647

Elapsed(t, since) == IF t >= since THEN t - since ELSE HugeElapsed

\* millis() wraps to 0 every 2^32 ms; the times of the model do not wrap.
\* s.drv.wrapAt is the time of the model at which millis() is 0: the start of
\* the run, or the wrap the run goes through.  Two times compare as their
\* 32-bit values do: a value taken before the wrap is above every value
\* taken after it.
BeforeWrap(s, t) == t < s.drv.wrapAt

ClockGe(s, t1, t2) ==
    IF BeforeWrap(s, t1) = BeforeWrap(s, t2) THEN t1 >= t2 ELSE BeforeWrap(s, t1)

ClockGt(s, t1, t2) ==
    IF BeforeWrap(s, t1) = BeforeWrap(s, t2) THEN t1 > t2 ELSE BeforeWrap(s, t1)

\* The time whose 32-bit value is 0, and the test `t > 0` of an unsigned long.
ClockZero(s) == s.drv.wrapAt

ClockNonZero(s, t) == t # s.drv.wrapAt

Min(a, b) == IF a < b THEN a ELSE b

BoolStr(b) == IF b THEN "true" ELSE "false"

----------------------------------------------------------------------------
(* The state record handlers work on *)

Cur == [now |-> now, pc |-> pc, main |-> main, wifi |-> wifi, ws |-> ws,
        ble |-> ble, drv |-> drv, disp |-> disp, out |-> out]

Commit(s) ==
    /\ now' = s.now
    /\ pc' = s.pc
    /\ main' = s.main
    /\ wifi' = s.wifi
    /\ ws' = s.ws
    /\ ble' = s.ble
    /\ drv' = s.drv
    /\ disp' = s.disp
    /\ out' = s.out

\* One external call (a display call, a driver call, a message sent).
Emit(s, call, arg) == [s EXCEPT !.out = Append(@, <<call, arg>>)]

\* delay(ms): the main task (or the callback's task) blocks, millis() moves on.
Delay(s, ms) == [s EXCEPT !.now = @ + ms]

----------------------------------------------------------------------------
(* display.cpp: the views the model distinguishes *)

DisplayBlinkAlert(s, state) ==
    Emit([s EXCEPT !.disp.invert = state], "Display.blinkAlert", BoolStr(state))

DisplayShowIdle(s, connected, mode) ==
    Emit([s EXCEPT !.disp.view = "idle", !.disp.connected = connected, !.disp.mode = mode],
         "Display.showIdle", mode)

DisplayShowNotification(s, notif) ==
    Emit([s EXCEPT !.disp.view = "notification"], "Display.showNotification", notif.table)

\* Every other full-screen view (showConnected, showError, showAPMode, showBLE...).
DisplayShowView(s, view) ==
    Emit([s EXCEPT !.disp.view = view], "Display.show", view)

\* showWeakSignal draws a banner over the current view without clearing it.
DisplayShowWeakSignal(s) == Emit(s, "Display.showWeakSignal", "")

----------------------------------------------------------------------------
(* main.cpp: presenter *)

\* updateConnectionStatus's text as it would be if the WiFi flag were tested
\* before the pair.
ModeTextWifiFirst(w, b) ==
    IF w THEN "WiFi"
    ELSE IF b THEN "BLE"
    ELSE "Desconectado"

ModeText(w, b) ==
    IF w /\ b THEN "WiFi+BLE"
    ELSE IF w THEN "WiFi"
    ELSE IF b THEN "BLE"
    ELSE "Desconectado"

updateConnectionStatus(s) ==
    IF ~s.main.hasActiveNotification
    THEN DisplayShowIdle(s, s.main.wifiConnected \/ s.main.bleConnected,
                         ModeText(s.main.wifiConnected, s.main.bleConnected))
    ELSE s

\* dismissNotification as it would be without the redraw of the idle view.
dismissNotificationNoRedraw(s) ==
    DisplayBlinkAlert([s EXCEPT !.main.hasActiveNotification = FALSE], FALSE)

dismissNotification(s) ==
    updateConnectionStatus(
        DisplayBlinkAlert([s EXCEPT !.main.hasActiveNotification = FALSE], FALSE))

\* showNotification as it would be if a replaced notification kept its
\* activation time.
showNotificationKeepTime(s, notif) ==
    DisplayShowNotification(
        [s EXCEPT !.main.hasActiveNotification = TRUE,
                  !.main.notificationTime =
                      IF s.main.hasActiveNotification THEN @ ELSE s.now,
                  !.main.currentNotification = notif],
        notif)

showNotification(s, notif) ==
    DisplayShowNotification(
        [s EXCEPT !.main.hasActiveNotification = TRUE,
                  !.main.notificationTime = s.now,
                  !.main.currentNotification = notif],
        notif)

\* shouldBlink as it would be if medium blinked too.
shouldBlinkMedium(priority) ==
    priority = "urgent" \/ priority = "high" \/ priority = "medium"

shouldBlink(priority) == priority = "urgent" \/ priority = "high"

\* Lines 166-170: the toggle of the visual-invert flag.
BlinkToggle(s) ==
    IF Elapsed(s.now, s.main.lastBlink) > ALERT_BLINK_INTERVAL
    THEN DisplayBlinkAlert([s EXCEPT !.main.lastBlink = s.now,
                                     !.main.alertBlinkState = ~s.main.alertBlinkState],
                           ~s.main.alertBlinkState)
    ELSE s

\* Lines 172-176: the auto-dismiss.
AutoDismiss(s) ==
    IF Elapsed(s.now, s.main.notificationTime) > NOTIFICATION_TIMEOUT
    THEN dismissNotification(s)
    ELSE s

updateNotificationBlink(s) ==
    IF ~s.main.hasActiveNotification THEN s
    ELSE IF ~shouldBlink(s.main.currentNotification.priority) THEN s
    ELSE AutoDismiss(BlinkToggle(s))

----------------------------------------------------------------------------
(* main.cpp: buttons *)

\* ESP.restart(): the device reboots; nothing after the call runs.
EspRestart(s) == Emit([s EXCEPT !.pc = "restarted"], "ESP.restart", "")

\* handleButtonsUser as it would be if it dismissed without looking at
\* hasActiveNotification.
handleButtonsUserAlways(s) ==
    IF s.main.btnUserPressed
    THEN dismissNotification([s EXCEPT !.main.btnUserPressed = FALSE])
    ELSE s

\* bootLow: digitalRead(BTN_BOOT) == LOW, the BOOT button is still held.
handleButtonsUser(s) ==
    IF s.main.btnUserPressed
    THEN LET s1 == [s EXCEPT !.main.btnUserPressed = FALSE]
         IN  IF s1.main.hasActiveNotification THEN dismissNotification(s1) ELSE s1
    ELSE s

handleButtonsBoot(s, bootLow) ==
    IF ~s.main.btnBootPressed THEN s
    ELSE IF bootLow
    THEN IF Elapsed(s.now, s.main.btnBootPressTime) > LONG_PRESS_TIME
         THEN EspRestart(
                  Emit(Delay(DisplayShowView([s EXCEPT !.main.btnBootPressed = FALSE],
                                             "error"), 1000),
                       "Storage.clearConfig", ""))
         ELSE s
    ELSE LET s1 == [s EXCEPT !.main.btnBootPressed = FALSE]
         IN  IF s1.main.currentState = "STATE_CONNECTED" /\ ~s1.main.hasActiveNotification
             THEN updateConnectionStatus(Delay(DisplayShowView(s1, "connected"), 3000))
             ELSE s1

handleButtons(s, bootLow) == handleButtonsBoot(handleButtonsUser(s), bootLow)

----------------------------------------------------------------------------
(* wifi_manager.cpp.  WifiMgr's _onConnectionChange is never set by the     *)
(* firmware (setConnectionCallback has no caller), so its calls do nothing. *)

WifiStartAPMode(s) ==
    DisplayShowView(
        [Delay(Emit([s EXCEPT !.wifi.reconnectScheduled = FALSE,
                              !.drv.wlConnected = FALSE,
                              !.drv.staStarted = FALSE],
                    "WiFi.softAP", ""), 100)
           EXCEPT !.wifi.state = "WIFI_STATE_AP_MODE"],
        "apmode")

\* Lines 139-146: the retry that is scheduled when the ceiling is not exceeded.
WifiScheduleRetry(s) ==
    LET b == Min(s.wifi.currentBackoff * 2, WIFI_MAX_BACKOFF)
    IN  [s EXCEPT !.wifi.currentBackoff = b,
                  !.wifi.nextReconnect = s.now + b,
                  !.wifi.reconnectScheduled = TRUE]

WifiCeilingExceeded(attempts) == attempts > WIFI_MAX_RECONNECT_ATTEMPTS

\* scheduleReconnect as it would be if it restarted the device once the
\* ceiling is passed.
WifiScheduleReconnectRestarts(s) ==
    LET s1 == [s EXCEPT !.wifi.reconnectAttempts = @ + 1]
    IN  IF WifiCeilingExceeded(s1.wifi.reconnectAttempts)
        THEN EspRestart(s1)
        ELSE WifiScheduleRetry(s1)

WifiScheduleReconnect(s) ==
    LET s1 == [s EXCEPT !.wifi.reconnectAttempts = @ + 1]
    IN  IF WifiCeilingExceeded(s1.wifi.reconnectAttempts)
        THEN WifiStartAPMode(s1)
        ELSE WifiScheduleRetry(s1)

WifiOnStaConnected(s) ==
    [s EXCEPT !.wifi.reconnectAttempts = 0,
              !.wifi.currentBackoff = WIFI_MIN_BACKOFF]

WifiOnGotIP(s) ==
    [s EXCEPT !.wifi.state = "WIFI_STATE_CONNECTED",
              !.wifi.reconnectAttempts = 0,
              !.wifi.currentBackoff = WIFI_MIN_BACKOFF,
              !.wifi.reconnectScheduled = FALSE]

WifiOnStaDisconnected(s) ==
    LET s1 == IF s.wifi.state = "WIFI_STATE_CONNECTED"
              THEN [s EXCEPT !.wifi.state = "WIFI_STATE_DISCONNECTED"]
              ELSE s
    IN  IF s1.wifi.state # "WIFI_STATE_AP_MODE" /\ ~s1.wifi.manualDisconnect
        THEN WifiScheduleReconnect(s1)
        ELSE s1

handleWiFiEvent(s, event) ==
    CASE event = "STA_CONNECTED" -> WifiOnStaConnected(s)
      [] event = "STA_GOT_IP" -> WifiOnGotIP(s)
      [] event = "STA_DISCONNECTED" -> WifiOnStaDisconnected(s)
      [] OTHER -> s

\* connect(), lines 149-158: up to the blocking wait.
WifiConnectBegin(s) ==
    Emit([DisplayShowView(s, "connecting")
            EXCEPT !.wifi.state = "WIFI_STATE_CONNECTING",
                   !.wifi.connectStart = s.now,
                   !.wifi.manualDisconnect = FALSE,
                   !.drv.staStarted = TRUE],
         "WiFi.begin", "")

\* connect(), lines 162-173: the wait ends after `waited` ms (a multiple of the
\* 250 ms poll) with WiFi.status() == WL_CONNECTED, or with the timeout.
WifiConnectTimedOut(s) == Elapsed(s.now, s.wifi.connectStart) > WIFI_CONNECT_TIMEOUT

WifiConnectEnd(s) ==
    IF s.drv.wlConnected
    THEN DisplayShowView([s EXCEPT !.wifi.state = "WIFI_STATE_CONNECTED",
                                   !.wifi.reconnectAttempts = 0,
                                   !.wifi.currentBackoff = WIFI_MIN_BACKOFF,
                                   !.wifi.reconnectScheduled = FALSE],
                         "connected")
    ELSE DisplayShowView([s EXCEPT !.wifi.state = "WIFI_STATE_ERROR"], "error")

\* connectFromConfig(): TRUE when connect() is to be called.
WifiConfigHasSsid(s) == s.main.deviceConfig.configured /\ s.main.deviceConfig.wifi_ssid # ""

WifiDisconnect(s) ==
    Emit([s EXCEPT !.wifi.manualDisconnect = TRUE,
                   !.wifi.reconnectScheduled = FALSE,
                   !.wifi.state = "WIFI_STATE_DISCONNECTED",
                   !.drv.wlConnected = FALSE],
         "WiFi.disconnect", "true")

\* loop(), lines 275-289: TRUE when the scheduled reconnect is due.
WifiReconnectDue(s) ==
    s.wifi.reconnectScheduled /\ ClockGe(s, s.now, s.wifi.nextReconnect)

\* loop(), lines 292-300.  rssiWeak: WiFi.RSSI() < -80.
WifiRssiCheck(s, rssiWeak) ==
    IF s.wifi.state = "WIFI_STATE_CONNECTED"
       /\ Elapsed(s.now, s.wifi.lastRssiCheck) > RSSI_CHECK_INTERVAL
    THEN LET s1 == [s EXCEPT !.wifi.lastRssiCheck = s.now]
         IN  IF rssiWeak THEN DisplayShowWeakSignal(s1) ELSE s1
    ELSE s

\* loop() up to the point where it blocks in connect() (pc "loop_connect") or,
\* when no connect is started, to its end.
WifiLoop(s, rssiWeak) ==
    IF WifiReconnectDue(s)
    THEN LET s1 == [s EXCEPT !.wifi.reconnectScheduled = FALSE]
         IN  IF s1.drv.wlConnected \/ s1.wifi.state = "WIFI_STATE_CONNECTED"
             THEN s1
             ELSE LET s2 == Delay(Emit(s1, "WiFi.disconnect", ""), 100)
                  IN  IF WifiConfigHasSsid(s2)
                      THEN [WifiConnectBegin(s2) EXCEPT !.pc = "loop_connect"]
                      ELSE WifiRssiCheck(s2, rssiWeak)
    ELSE WifiRssiCheck(s, rssiWeak)

----------------------------------------------------------------------------
(* Messages.  A payload is a record: wellFormed (the JSON parses), len (its  *)
(* length in bytes), type, and for a notification its fields; Absent stands *)
(* for a field that is missing.  A timestamp is NoTimestamp (the field is   *)
(* missing), BigTimestamp (a JSON integer above 2^32 - 1, which unsigned    *)
(* long cannot hold) or the number given.                                   *)

Absent == "<absent>"
NoTimestamp == 0 - 1
BigTimestamp == 0 - 2

\* doc["timestamp"] | millis(): the variant's value when it is an unsigned
\* long, else the default.
TimestampOr(v, dflt) == IF v >= 0 THEN v ELSE dflt

EmptyNotification ==
    [table |-> "", alert |-> "", message |-> "", priority |-> "", timestamp |-> 0]

\* doc["k"] | dflt
OrDefault(v, dflt) == IF v = Absent THEN dflt ELSE v

\* Text values.  "x*n" stands for a text of n characters, for the lengths
\* around the sizes of the fields; every other value of the model is
\* shorter than the smallest field.
LongTexts == {"x*15", "x*16", "x*31", "x*32", "x*255", "x*256"}

StrLen(v) ==
    CASE v = "x*15" -> 15
      [] v = "x*16" -> 16
      [] v = "x*31" -> 31
      [] v = "x*32" -> 32
      [] v = "x*255" -> 255
      [] v = "x*256" -> 256
      [] OTHER -> 1

\* The first n characters of a long text.
LongText(n) ==
    CASE n = 15 -> "x*15"
      [] n = 16 -> "x*16"
      [] n = 31 -> "x*31"
      [] n = 32 -> "x*32"
      [] n = 255 -> "x*255"
      [] n = 256 -> "x*256"

\* strncpy(dst, v, n) into a field that memset has zeroed: the first n
\* characters of v, and v itself when it has no more.
Strncpy(v, n) == IF StrLen(v) <= n THEN v ELSE LongText(n)

\* Lines 176-180 of websocket_client.cpp and 409-413 of ble_client.cpp.
ParseNotification(s, msg) ==
    [table |-> Strncpy(OrDefault(msg.table, ""), TABLE_SIZE - 1),
     alert |-> Strncpy(OrDefault(msg.alert, ""), TYPE_SIZE - 1),
     message |-> Strncpy(OrDefault(msg.message, ""), MESSAGE_SIZE - 1),
     priority |-> Strncpy(OrDefault(msg.priority, "medium"), PRIORITY_SIZE - 1),
     timestamp |-> TimestampOr(msg.timestamp, s.now)]

----------------------------------------------------------------------------
(* websocket_client.cpp *)

\* The callback as it would be if it recorded the flag and left the display.
WsOnConnectionChangeNoRedraw(s, connected) == [s EXCEPT !.main.wifiConnected = connected]

\* main.cpp 229-237: the callback startWebSocketClient installs.
WsOnConnectionChange(s, connected) ==
    updateConnectionStatus([s EXCEPT !.main.wifiConnected = connected])

WsSendTXT(s, what) == Emit(s, "ws.sendTXT", what)

\* sendAck as it would be if it sent the acknowledgment twice.
WsSendAckTwice(s, id) == Emit(Emit(s, "ws.sendTXT.ack", id), "ws.sendTXT.ack", id)

WsSendAck(s, id) == Emit(s, "ws.sendTXT.ack", id)

\* handleMessage as it would be if it acknowledged every message that
\* carries an id, whatever its kind.
WsHandleMessageAckAll(s, msg) ==
    LET s1 == [s EXCEPT !.ws.lastActivity = s.now]
        s2 == IF msg.wellFormed /\ msg.type = "notification"
              THEN showNotification(s1, ParseNotification(s1, msg))
              ELSE IF msg.wellFormed /\ msg.type = "ping" THEN WsSendTXT(s1, "pong")
              ELSE s1
    IN  IF OrDefault(msg.id, "") # "" THEN WsSendAck(s2, msg.id) ELSE s2

\* handleMessage, lines 157-211.
WsHandleMessage(s, msg) ==
    LET s1 == [s EXCEPT !.ws.lastActivity = s.now]
    IN  IF ~msg.wellFormed THEN s1
        ELSE IF msg.type = "notification"
        THEN LET s2 == showNotification(s1, ParseNotification(s1, msg))
             IN  IF OrDefault(msg.id, "") # "" THEN WsSendAck(s2, msg.id) ELSE s2
        ELSE IF msg.type = "ping" THEN WsSendTXT(s1, "pong")
        ELSE s1

\* Lines 107-108 and 60-61: the doubling, capped.
WsNextBackoff(b) == Min(b * 2, WS_MAX_BACKOFF)

WsOnDisconnected(s) ==
    WsOnConnectionChange(
        Emit([s EXCEPT !.ws.connected = FALSE,
                       !.ws.reconnectAttempts = @ + 1,
                       !.ws.lastReconnect = s.now,
                       !.ws.currentBackoff = WsNextBackoff(@)],
             "ws.setReconnectInterval", ""),
        FALSE)

WsOnConnected(s) ==
    WsOnConnectionChange(
        WsSendTXT(
            Emit([s EXCEPT !.ws.connected = TRUE,
                           !.ws.reconnectAttempts = 0,
                           !.ws.currentBackoff = WS_MIN_BACKOFF,
                           !.ws.lastActivity = s.now,
                           !.ws.lastHeartbeat = s.now],
                 "ws.setReconnectInterval", ""),
            "register"),
        TRUE)

\* ev: [type, msg].  "ws.event" records that the library called handleEvent.
WsHandleEvent(s, ev) ==
    LET s1 == Emit([s EXCEPT !.ws.lastActivity = s.now], "ws.event", ev.type)
    IN  CASE ev.type = "WStype_DISCONNECTED" -> WsOnDisconnected(s1)
          [] ev.type = "WStype_CONNECTED" -> WsOnConnected(s1)
          [] ev.type = "WStype_TEXT" -> WsHandleMessage(s1, ev.msg)
          [] ev.type = "WStype_PING" -> s1
          [] ev.type = "WStype_PONG" -> s1
          [] ev.type = "WStype_ERROR" -> [s1 EXCEPT !.ws.reconnectAttempts = @ + 1]
          [] OTHER -> s1

\* _ws.loop(): the library delivers the pending event, if any, to handleEvent.
WsDriverLoop(s, ev) ==
    IF ev.type = "none" THEN s
    ELSE WsHandleEvent(
             [s EXCEPT !.drv.wsUp = IF ev.type = "WStype_CONNECTED" THEN TRUE
                                    ELSE IF ev.type = "WStype_DISCONNECTED" THEN FALSE
                                    ELSE @],
             ev)

\* _ws.disconnect(): the library closes an open socket and reports it to
\* handleEvent before it returns; with no open socket it does nothing.
WsDriverDisconnect(s) ==
    LET s1 == Emit(s, "ws.disconnect", "")
    IN  IF s1.drv.wsUp
        THEN WsHandleEvent([s1 EXCEPT !.drv.wsUp = FALSE],
                           [type |-> "WStype_DISCONNECTED", msg |-> Absent])
        ELSE s1

\* The heartbeat as it would be if it were sent at 20 s sharp.
WsHeartbeatAtTwenty(s) ==
    IF s.ws.connected /\ Elapsed(s.now, s.ws.lastHeartbeat) >= WS_HEARTBEAT_INTERVAL
    THEN [WsSendTXT(s, "heartbeat") EXCEPT !.ws.lastHeartbeat = s.now]
    ELSE s

\* Lines 40-43.
WsHeartbeat(s) ==
    IF s.ws.connected /\ Elapsed(s.now, s.ws.lastHeartbeat) > WS_HEARTBEAT_INTERVAL
    THEN [WsSendTXT(s, "heartbeat") EXCEPT !.ws.lastHeartbeat = s.now]
    ELSE s

\* The watchdog's condition as it would be if it fired at 60 s sharp.
WsWatchdogDueAtSixty(s) ==
    s.ws.connected /\ Elapsed(s.now, s.ws.lastActivity) >= WS_WATCHDOG_TIMEOUT

\* Lines 46-52.
WsWatchdogDue(s) ==
    s.ws.connected /\ Elapsed(s.now, s.ws.lastActivity) > WS_WATCHDOG_TIMEOUT

WsWatchdog(s) ==
    IF WsWatchdogDue(s)
    THEN [WsDriverDisconnect(Emit(s, "ws.watchdog", "")) EXCEPT !.ws.connected = FALSE]
    ELSE s

\* Lines 55-64.
WsBackoffMonitor(s) ==
    IF ~s.ws.connected /\ s.ws.reconnectAttempts > 0
       /\ Elapsed(s.now, s.ws.lastReconnect) > s.ws.currentBackoff * 2
    THEN Emit([s EXCEPT !.ws.currentBackoff = WsNextBackoff(@)],
              "ws.setReconnectInterval", "")
    ELSE s

WsLoop(s, ev) == WsBackoffMonitor(WsWatchdog(WsHeartbeat(WsDriverLoop(s, ev))))

WsDisconnect(s) == [WsDriverDisconnect(s) EXCEPT !.ws.connected = FALSE]

WsForceReconnect(s) ==
    Emit(Emit([WsDriverDisconnect(s) EXCEPT !.ws.connected = FALSE,
                                            !.ws.reconnectAttempts = 0,
                                            !.ws.currentBackoff = WS_MIN_BACKOFF],
              "ws.setReconnectInterval", ""),
         "ws.begin", "")

\* begin(): lines 6-34.
WsBegin(s) ==
    Emit(Emit([s EXCEPT !.ws.lastReconnect = s.now, !.drv.wsBegun = TRUE],
              "ws.begin", ""),
         "ws.setReconnectInterval", "")

----------------------------------------------------------------------------
(* ble_client.cpp: the reconnect delay, in the int arithmetic of line 438.   *)
(* A 32-bit pattern is a pair <<hi, lo>> of 16-bit halves.                   *)

Half == 65536

Double32(p) ==
    LET lo2 == p[2] * 2
    IN  <<(p[1] * 2 + (lo2 \div Half)) % Half, lo2 % Half>>

RECURSIVE ShiftLeft32(_, _)
ShiftLeft32(p, k) == IF k = 0 THEN p ELSE ShiftLeft32(Double32(p), k - 1)

\* 1 << k for an int k >= 0.  A shift by the width or more is undefined: the
\* build gives either the shift by k mod 32 (what the shift instruction does
\* with the count) or 0; ub chooses.
ShiftOutcome(k, ub) ==
    IF k < 32 THEN k
    ELSE IF ub = "count_wraps" THEN k % 32
    ELSE 0 - 1

\* BLE_RECONNECT_DELAY * (1 << k) as the 32-bit pattern converted to unsigned
\* long, then capped (line 439).  The product overflows int from k = 20 on and
\* the pattern is what the multiply instruction leaves.
BleDelay(k, ub) ==
    LET e == ShiftOutcome(k, ub)
        p == IF e < 0 THEN <<0, 0>> ELSE ShiftLeft32(<<0, BLE_RECONNECT_DELAY>>, e)
    IN  IF p[1] > 0 \/ p[2] > BLE_MAX_DELAY THEN BLE_MAX_DELAY ELSE p[2]

BleScheduleReconnect(s, ub) ==
    LET n == s.ble.reconnectAttempts + 1
    IN  [s EXCEPT !.ble.reconnectAttempts = n,
                  !.ble.lastReconnect = s.now + BleDelay(n - 1, ub),
                  !.ble.lastDelay = BleDelay(n - 1, ub)]

----------------------------------------------------------------------------
(* ble_client.cpp: handlers the driver's callbacks call *)

\* main.cpp 268-276 and 257-265: the callbacks startBLEClient installs.
BleOnConnectionChange(s, connected) ==
    updateConnectionStatus([s EXCEPT !.main.bleConnected = connected])

BleRegisterDevice(s) ==
    IF s.ble.connected /\ s.ble.pRegisterChar
    THEN Emit(s, "ble.writeValue", "register")
    ELSE s

\* handleDeviceFound, lines 266-285.  The delay(1500) in its middle blocks
\* the BLE host task, not the main task: loop() can run between the two
\* halves.  drv.bleHostBusy says the host task is inside that delay.
\* The guard as it would be without the test of the pending request.
BleDeviceFoundRefusedNoPending(s) ==
    s.ble.connected \/ s.ble.state = "BLE_STATE_CONNECTING"

BleDeviceFoundRefused(s) ==
    s.ble.connected \/ s.ble.state = "BLE_STATE_CONNECTING" \/ s.ble.doConnect

\* Lines 266-280: up to the delay.
BleHandleDeviceFoundBegin(s) ==
    IF BleDeviceFoundRefused(s)
    THEN s
    ELSE DisplayShowView(
             Emit([s EXCEPT !.ble.state = "BLE_STATE_IDLE", !.drv.bleScanning = FALSE,
                            !.drv.bleHostBusy = TRUE],
                  "BLEScan.stop", ""),
             "bleFound")

\* Lines 282-284: after the delay.
BleHandleDeviceFoundEnd(s) ==
    IF s.drv.bleHostBusy
    THEN [s EXCEPT !.ble.pServerDevice = TRUE, !.ble.doConnect = TRUE,
                   !.drv.bleHostBusy = FALSE]
    ELSE s

\* The whole callback, when loop() does not run during the delay.
BleHandleDeviceFound(s) == BleHandleDeviceFoundEnd(BleHandleDeviceFoundBegin(s))

BleHandleConnect(s) ==
    LET s1 == [s EXCEPT !.ble.connected = TRUE,
                        !.ble.state = "BLE_STATE_CONNECTED",
                        !.ble.reconnectAttempts = 0]
        s2 == IF s1.ble.deviceIdSet THEN BleRegisterDevice(Delay(s1, 500)) ELSE s1
    IN  BleOnConnectionChange(s2, TRUE)

BleHandleDisconnect(s, ub) ==
    BleScheduleReconnect(
        BleOnConnectionChange(
            [s EXCEPT !.ble.connected = FALSE,
                      !.ble.state = "BLE_STATE_DISCONNECTED",
                      !.ble.pNotifyChar = FALSE,
                      !.ble.pRegisterChar = FALSE],
            FALSE),
        ub)

\* parseNotification, lines 385-432, with the callback of main.cpp 257-265.
\* The payload is copied into json[512] and cut at 511 bytes; a cut document
\* does not parse.
BleParseNotification(s, msg) ==
    IF ~msg.wellFormed \/ msg.len > BLE_JSON_BUFFER - 1 THEN s
    ELSE IF msg.type = "notification"
    THEN showNotification(s, ParseNotification(s, msg))
    ELSE s

\* markScanComplete as it would be if it left the state as it is.
BleMarkScanCompleteKeepsState(s) == s

BleMarkScanComplete(s) ==
    IF s.ble.state = "BLE_STATE_SCANNING"
    THEN [s EXCEPT !.ble.state = "BLE_STATE_DISCONNECTED"]
    ELSE s

\* scanCompleteCallback, lines 89-98.
BleScanCompleteCallback(s) ==
    IF s.ble.state = "BLE_STATE_SCANNING"
    THEN BleMarkScanComplete(DisplayShowView(s, "bleStatus"))
    ELSE s

\* MyAdvertisedDeviceCallbacks::onResult, lines 37-74.  A candidate is
\* [addr, service, name]; addresses compare case-insensitively.
LowerCase(a) ==
    CASE a = "AA:01" -> "aa:01"
      [] a = "AA:02" -> "aa:02"
      [] OTHER -> a

BleCandidateMatches(s, cand) ==
    \/ s.ble.targetAddress # "" /\ LowerCase(s.ble.targetAddress) = LowerCase(cand.addr)
    \/ cand.service
    \/ cand.name = BLE_SERVER_NAME

\* The tests of onResult as they would be without the return that follows
\* each call of handleDeviceFound.
BleOnResultOffersNoReturn(s, cand) ==
    (IF s.ble.targetAddress # "" /\ LowerCase(s.ble.targetAddress) = LowerCase(cand.addr)
     THEN <<"address">> ELSE <<>>)
    \o (IF cand.service THEN <<"service">> ELSE <<>>)
    \o (IF cand.name = BLE_SERVER_NAME THEN <<"name">> ELSE <<>>)

\* The tests of onResult, in their order: the calls of handleDeviceFound it
\* makes for a candidate, each named by the test that led to it.
BleOnResultOffers(s, cand) ==
    IF s.ble.targetAddress # "" /\ LowerCase(s.ble.targetAddress) = LowerCase(cand.addr)
    THEN <<"address">>
    ELSE IF cand.service
    THEN <<"service">>
    ELSE IF cand.name = BLE_SERVER_NAME
    THEN <<"name">>
    ELSE <<>>

\* The calls made: "BleClient.handleDeviceFound" records each.  whole says
\* whether handleDeviceFound runs to its end or as far as its delay.
RECURSIVE BleOffer(_, _, _)
BleOffer(s, offers, whole) ==
    IF offers = <<>> THEN s
    ELSE LET s1 == Emit(s, "BleClient.handleDeviceFound", Head(offers))
         IN  BleOffer(IF whole THEN BleHandleDeviceFound(s1)
                      ELSE BleHandleDeviceFoundBegin(s1),
                      Tail(offers), whole)

BleOnResult(s, cand) == BleOffer(s, BleOnResultOffers(s, cand), TRUE)

BleOnResultBegin(s, cand) == BleOffer(s, BleOnResultOffers(s, cand), FALSE)

----------------------------------------------------------------------------
(* ble_client.cpp: connectToServer and loop *)

\* connectToServer, lines 328-383.  outcome is what the driver answers:
\* "connect_failed", "no_service", "no_notify_char", "ok_no_register_char" or
\* "ok".  The driver calls onConnect (handleConnect) before connect() returns.
BleConnectToServer(s, outcome) ==
    IF ~s.ble.pServerDevice THEN s
    ELSE LET s1 == Emit([s EXCEPT !.ble.state = "BLE_STATE_CONNECTING",
                                  !.ble.pClient = TRUE],
                        "BLEClient.connect", "")
         IN  IF outcome = "connect_failed"
             THEN [s1 EXCEPT !.ble.state = "BLE_STATE_DISCONNECTED"]
             ELSE LET s2 == BleHandleConnect([s1 EXCEPT !.drv.bleLinkUp = TRUE])
                  IN  IF outcome = "no_service"
                      THEN [Emit(s2, "BLEClient.disconnect", "")
                              EXCEPT !.ble.state = "BLE_STATE_DISCONNECTED"]
                      ELSE IF outcome = "no_notify_char"
                      THEN [Emit(s2, "BLEClient.disconnect", "")
                              EXCEPT !.ble.state = "BLE_STATE_DISCONNECTED",
                                     !.ble.pNotifyChar = FALSE]
                      ELSE [s2 EXCEPT !.ble.pNotifyChar = TRUE,
                                      !.ble.pRegisterChar = (outcome = "ok")]

BleConnectSucceeded(s, outcome) ==
    s.ble.pServerDevice /\ outcome \in {"ok", "ok_no_register_char"}

\* Lines 126-138.
BleLoopConnect(s, outcome, ub) ==
    IF s.ble.doConnect
    THEN LET s1 == DisplayShowView([s EXCEPT !.ble.doConnect = FALSE], "bleConnecting")
             s2 == BleConnectToServer(s1, outcome)
         IN  IF BleConnectSucceeded(s1, outcome) THEN s2
             ELSE BleScheduleReconnect(Delay(DisplayShowView(s2, "bleStatus"), 1000), ub)
    ELSE s

\* Lines 141-155.
BleLoopScan(s) ==
    IF s.ble.doScan /\ ~s.ble.connected
    THEN Emit(DisplayShowView([s EXCEPT !.ble.doScan = FALSE,
                                        !.ble.state = "BLE_STATE_SCANNING",
                                        !.drv.bleScanning = TRUE],
                              "bleScanning"),
              "BLEScan.start", "")
    ELSE s

\* Lines 158-164.
BleLoopScanDisplay(s) ==
    IF s.ble.state = "BLE_STATE_SCANNING"
       /\ Elapsed(s.now, s.ble.lastDisplayUpdate) > BLE_DISPLAY_UPDATE_INTERVAL
    THEN DisplayShowView([s EXCEPT !.ble.lastDisplayUpdate = s.now], "bleScanning")
    ELSE s

\* Lines 167-176.
BleLoopAutoScan(s) ==
    IF ~s.ble.connected /\ s.ble.state # "BLE_STATE_SCANNING"
       /\ s.ble.state # "BLE_STATE_CONNECTING"
       /\ Elapsed(s.now, s.ble.lastScanTime) > BLE_SCAN_INTERVAL
    THEN [s EXCEPT !.ble.lastScanTime = s.now, !.ble.doScan = TRUE]
    ELSE s

\* Lines 179-182.
BleLoopBackoff(s) ==
    IF ~s.ble.connected /\ ClockNonZero(s, s.ble.lastReconnect)
       /\ ClockGe(s, s.now, s.ble.lastReconnect)
    THEN [s EXCEPT !.ble.lastReconnect = ClockZero(s), !.ble.doScan = TRUE]
    ELSE s

BleLoop(s, outcome, ub) ==
    BleLoopBackoff(BleLoopAutoScan(BleLoopScanDisplay(BleLoopScan(
        BleLoopConnect(s, outcome, ub)))))

BleStartScan(s) == IF ~s.ble.connected THEN [s EXCEPT !.ble.doScan = TRUE] ELSE s

BleDisconnect(s) ==
    [(IF s.ble.pClient /\ s.ble.connected THEN Emit(s, "BLEClient.disconnect", "") ELSE s)
       EXCEPT !.ble.connected = FALSE, !.ble.state = "BLE_STATE_DISCONNECTED"]

BleForceReconnect(s) ==
    [BleDisconnect(s) EXCEPT !.ble.reconnectAttempts = 0, !.ble.doScan = TRUE]

\* begin(), lines 107-122.
BleBegin(s) == Emit([s EXCEPT !.ble.state = "BLE_STATE_IDLE", !.drv.bleBegun = TRUE],
                    "BLEDevice.init", "")

----------------------------------------------------------------------------
(* main.cpp: state machine *)

enterAPMode(s) ==
    Emit([WifiStartAPMode([s EXCEPT !.main.currentState = "STATE_AP_MODE"])
            EXCEPT !.drv.portalRunning = TRUE],
         "Portal.begin", "")

startWebSocketClient(s) == WsBegin(s)

\* Lines 243-283.  registerDevice stores the device id (never empty: it is
\* the MAC string) and, not being connected, sends nothing.
startBLEClient(s) ==
    LET s1 == BleBegin(s)
        s2 == IF s1.main.deviceConfig.ble_server_address # ""
              THEN [s1 EXCEPT !.ble.targetAddress = s1.main.deviceConfig.ble_server_address]
              ELSE s1
    IN  BleStartScan(BleRegisterDevice([s2 EXCEPT !.ble.deviceIdSet = TRUE]))

UsesWiFi(connMode) == connMode = "wifi" \/ connMode = "both"
UsesBLE(connMode) == connMode = "ble" \/ connMode = "both"

enterConnectedMode(s) ==
    LET c == s.main.deviceConfig
        s1 == [Delay([s EXCEPT !.main.currentState = "STATE_CONNECTED"], 2000)
                 EXCEPT !.main.useWiFi = UsesWiFi(c.connection_mode),
                        !.main.useBLE = UsesBLE(c.connection_mode)]
        s2 == IF c.mode = "bitsperbox" /\ s1.main.useWiFi THEN startWebSocketClient(s1) ELSE s1
        s3 == IF c.mode = "bitsperbox" /\ s2.main.useBLE THEN startBLEClient(s2) ELSE s2
    IN  updateConnectionStatus(s3)

----------------------------------------------------------------------------
(* main.cpp: setup() and loop() *)

\* setup() as it would be if it entered Connected mode whatever the connect
\* gave.
setupFinishAlwaysConnected(s, wifiOk) == [enterConnectedMode(s) EXCEPT !.pc = "loop"]

\* setup(), lines 320-378: up to the blocking wait of WifiMgr.connect (pc
\* "setup_connect") or, when no connect is made, to the end.  cfg is what
\* Storage.loadConfig left in deviceConfig; cfg.configured is FALSE when
\* nothing is stored, and loadConfig then fails as isConfigured does.
setupFinish(s, wifiOk) ==
    LET c == s.main.deviceConfig
        s1 == IF wifiOk \/ UsesBLE(c.connection_mode) \/ ~UsesWiFi(c.connection_mode)
              THEN enterConnectedMode(s)
              ELSE enterAPMode(s)
    IN  [s1 EXCEPT !.pc = "loop"]

setupBegin(s, cfg) ==
    LET s1 == Delay(Emit([DisplayShowView(Delay(s, 1000), "splash")
                            EXCEPT !.drv.wifiBegun = TRUE, !.drv.staStarted = TRUE],
                         "WifiMgr.begin", ""), 1500)
    IN  IF cfg.configured
        THEN LET s2 == [s1 EXCEPT !.main.deviceConfig = cfg,
                                  !.main.currentState = "STATE_CONNECTING"]
             IN  IF UsesWiFi(cfg.connection_mode)
                 THEN [WifiConnectBegin(s2) EXCEPT !.pc = "setup_connect"]
                 ELSE setupFinish(s2, FALSE)
        ELSE [enterAPMode(s1) EXCEPT !.pc = "loop"]

\* Portal.handleClient(); saved: a POST /save is served now, whose handler
\* calls the callback enterAPMode installed (lines 190-194).
PortalHandleClient(s, saved) ==
    IF s.drv.portalRunning /\ saved
    THEN [Emit(s, "Storage.saveConfig", "")
            EXCEPT !.main.shouldRestart = TRUE,
                   !.main.restartTime = s.now + RESTART_DELAY]
    ELSE s

\* The same part of loop() as it would be if it polled both clients whatever
\* the connection mode.
loopAfterWifiPollAll(s, in) ==
    LET bitsperbox == s.main.deviceConfig.mode = "bitsperbox"
        s1 == IF bitsperbox THEN WsLoop(Emit(s, "WsClient.loop", ""), in.wsEv) ELSE s
        s2 == IF bitsperbox
              THEN BleLoop(Emit(s1, "BleClient.loop", ""), in.bleOutcome, in.ub)
              ELSE s1
    IN  updateNotificationBlink(s2)

\* loop(), lines 420-431: what follows WifiMgr.loop() in STATE_CONNECTED.
\* "WifiMgr.loop", "WsClient.loop" and "BleClient.loop" record the polls.
loopAfterWifi(s, in) ==
    LET bitsperbox == s.main.deviceConfig.mode = "bitsperbox"
        s1 == IF bitsperbox /\ s.main.useWiFi
              THEN WsLoop(Emit(s, "WsClient.loop", ""), in.wsEv)
              ELSE s
        s2 == IF bitsperbox /\ s1.main.useBLE
              THEN BleLoop(Emit(s1, "BleClient.loop", ""), in.bleOutcome, in.ub)
              ELSE s1
    IN  updateNotificationBlink(s2)

\* The test of lines 400-401 as it would be without the time.
RestartDueAtOnce(s) == s.main.shouldRestart

RestartDue(s) == s.main.shouldRestart /\ ClockGt(s, s.now, s.main.restartTime)

\* loop() as it would be if the buttons were handled after the transports
\* and the presenter.
loopButtonsLast(s, in) ==
    IF RestartDue(s) THEN EspRestart(s)
    ELSE IF s.main.currentState = "STATE_AP_MODE"
    THEN handleButtons(PortalHandleClient(s, in.saved), in.bootLow)
    ELSE IF s.main.currentState = "STATE_CONNECTED"
    THEN LET s2 == IF s.main.useWiFi
                   THEN WifiLoop(Emit(s, "WifiMgr.loop", ""), in.rssiWeak)
                   ELSE s
         IN  IF s2.pc = "loop_connect" THEN s2
             ELSE handleButtons(loopAfterWifi(s2, in), in.bootLow)
    ELSE handleButtons(s, in.bootLow)

\* loop(), lines 398-442, up to the point where WifiMgr.loop() blocks in
\* connect() (pc "loop_connect") or to its end.
loop(s, in) ==
    IF RestartDue(s) THEN EspRestart(s)
    ELSE LET s1 == handleButtons(s, in.bootLow)
         IN  IF s1.pc = "restarted" THEN s1
             ELSE IF s1.main.currentState = "STATE_AP_MODE"
             THEN PortalHandleClient(s1, in.saved)
             ELSE IF s1.main.currentState = "STATE_CONNECTED"
             THEN LET s2 == IF s1.main.useWiFi
                            THEN WifiLoop(Emit(s1, "WifiMgr.loop", ""), in.rssiWeak)
                            ELSE s1
                  IN  IF s2.pc = "loop_connect" THEN s2 ELSE loopAfterWifi(s2, in)
             ELSE s1

\* The blocking wait of connect() ends; the caller goes on.
connectReturns(s, in) ==
    LET s1 == WifiConnectEnd(s)
    IN  IF s.pc = "setup_connect"
        THEN setupFinish(s1, s.drv.wlConnected)
        ELSE loopAfterWifi(WifiRssiCheck([s1 EXCEPT !.pc = "loop"], in.rssiWeak), in)

----------------------------------------------------------------------------
(* Initial state: the globals as their definitions initialise them *)

NoConfig ==
    [configured |-> FALSE, mode |-> "", connection_mode |-> "", wifi_ssid |-> "",
     ble_server_address |-> ""]

Init ==
    /\ now = 0
    /\ pc = "boot"
    /\ iter = 0
    /\ main = [currentState |-> "STATE_BOOT", deviceConfig |-> NoConfig,
               shouldRestart |-> FALSE, restartTime |-> 0,
               hasActiveNotification |-> FALSE, notificationTime |-> 0,
               currentNotification |-> EmptyNotification,
               btnUserPressed |-> FALSE, btnBootPressed |-> FALSE, btnBootPressTime |-> 0,
               alertBlinkState |-> FALSE, lastBlink |-> 0,
               useWiFi |-> TRUE, useBLE |-> TRUE,
               wifiConnected |-> FALSE, bleConnected |-> FALSE]
    /\ wifi = [state |-> "WIFI_STATE_DISCONNECTED", connectStart |-> 0,
               reconnectAttempts |-> 0, currentBackoff |-> WIFI_MIN_BACKOFF,
               nextReconnect |-> 0, reconnectScheduled |-> FALSE,
               manualDisconnect |-> FALSE, lastRssiCheck |-> 0]
    /\ ws = [connected |-> FALSE, lastReconnect |-> 0, lastHeartbeat |-> 0,
             lastActivity |-> 0, reconnectAttempts |-> 0, currentBackoff |-> WS_MIN_BACKOFF]
    /\ ble = [state |-> "BLE_STATE_IDLE", connected |-> FALSE, doConnect |-> FALSE,
              doScan |-> FALSE, lastScanTime |-> 0, lastReconnect |-> 0,
              reconnectAttempts |-> 0, lastDelay |-> 0, pClient |-> FALSE,
              pServerDevice |-> FALSE, pNotifyChar |-> FALSE, pRegisterChar |-> FALSE,
              deviceIdSet |-> FALSE, targetAddress |-> "", lastDisplayUpdate |-> 0]
    /\ drv = [wifiBegun |-> FALSE, staStarted |-> FALSE, wlConnected |-> FALSE,
              wsBegun |-> FALSE, wsUp |-> FALSE, bleBegun |-> FALSE,
              bleScanning |-> FALSE, bleLinkUp |-> FALSE, portalRunning |-> FALSE,
              bleHostBusy |-> FALSE, wrapAt |-> 0]
    /\ disp = [view |-> "off", invert |-> FALSE, connected |-> FALSE, mode |-> ""]
    /\ out = <<>>

----------------------------------------------------------------------------
(* Actions.  Each takes the sets its inputs are drawn from. *)

Running == pc # "boot" /\ pc # "restarted"

Fresh == [Cur EXCEPT !.out = <<>>]

Setup(cfgs) ==
    /\ pc = "boot"
    /\ \E cfg \in cfgs : Commit(setupBegin(Fresh, cfg))
    /\ UNCHANGED iter

\* The number of failures in a row the socket library is let report.
MaxWsAttempts == 6

\* What the socket library can report in the state the socket is in.
WsEventPossible(ev) ==
    \/ ev.type = "none"
    \/ /\ drv.wsBegun
       /\ main.useWiFi
       /\ ev.type \in {"WStype_DISCONNECTED", "WStype_ERROR"} =>
              ws.reconnectAttempts < MaxWsAttempts
       /\ ev.type \in {"WStype_TEXT", "WStype_PING", "WStype_PONG", "WStype_BIN"} => drv.wsUp
       /\ ev.type = "WStype_CONNECTED" => ~drv.wsUp

\* One iteration of loop(), d ms after the previous one.
LoopStep(steps, ins, maxIter) ==
    /\ pc = "loop"
    /\ iter < maxIter
    /\ \E d \in steps, in \in ins :
          /\ WsEventPossible(in.wsEv)
          /\ Commit(loop([Fresh EXCEPT !.now = now + d], in))
    /\ iter' = iter + 1

\* WifiMgr.connect stops waiting: at the next 250 ms poll when WiFi.status()
\* is WL_CONNECTED, else at the first poll past WIFI_CONNECT_TIMEOUT.
ConnectEndTime ==
    LET deadline == wifi.connectStart + WIFI_CONNECT_TIMEOUT + 250
    IN  IF drv.wlConnected \/ now > deadline THEN now + 250 ELSE deadline

ConnectReturns(ins) ==
    /\ pc \in {"setup_connect", "loop_connect"}
    /\ \E in \in ins :
          /\ WsEventPossible(in.wsEv)
          /\ Commit(connectReturns([Fresh EXCEPT !.now = ConnectEndTime], in))
    /\ UNCHANGED iter

\* The WiFi driver's event task calls onWiFiEvent.
WifiEvent(evs, maxAttempts) ==
    /\ Running
    /\ drv.wifiBegun
    /\ \E e \in evs :
          /\ e \in {"STA_CONNECTED", "STA_GOT_IP"} => drv.staStarted
          /\ e = "STA_DISCONNECTED" => wifi.reconnectAttempts < maxAttempts
          /\ Commit(handleWiFiEvent(
                 [Fresh EXCEPT !.drv.wlConnected = IF e = "STA_GOT_IP" THEN TRUE
                                                   ELSE IF e = "STA_DISCONNECTED" THEN FALSE
                                                   ELSE @],
                 e))
    /\ UNCHANGED iter

\* The BLE host task calls the scan, client and notify callbacks.
\* A scan result whose callback goes as far as the delay of
\* handleDeviceFound, and the end of that delay.
BleScanResultBegins(cands) ==
    /\ Running
    /\ drv.bleScanning
    /\ ~drv.bleHostBusy
    /\ \E c \in cands : Commit(BleOnResultBegin(Fresh, c))
    /\ UNCHANGED iter

BleScanResultEnds ==
    /\ Running
    /\ drv.bleHostBusy
    /\ Commit(BleHandleDeviceFoundEnd(Fresh))
    /\ UNCHANGED iter

BleScanResult(cands) ==
    /\ Running
    /\ drv.bleScanning
    /\ ~drv.bleHostBusy
    /\ \E c \in cands : Commit(BleOnResult(Fresh, c))
    /\ UNCHANGED iter

BleScanComplete ==
    /\ Running
    /\ drv.bleScanning
    /\ ~drv.bleHostBusy
    /\ Commit(BleScanCompleteCallback([Fresh EXCEPT !.drv.bleScanning = FALSE]))
    /\ UNCHANGED iter

BleDisconnected(ubs, maxAttempts) ==
    /\ Running
    /\ drv.bleLinkUp
    /\ ~drv.bleHostBusy
    /\ ble.reconnectAttempts < maxAttempts
    /\ \E ub \in ubs : Commit(BleHandleDisconnect([Fresh EXCEPT !.drv.bleLinkUp = FALSE], ub))
    /\ UNCHANGED iter

BleNotify(msgs) ==
    /\ Running
    /\ drv.bleLinkUp
    /\ ~drv.bleHostBusy
    /\ ble.pNotifyChar
    /\ \E m \in msgs : Commit(BleParseNotification(Fresh, m))
    /\ UNCHANGED iter

\* The button interrupts (main.cpp 72-80).  They make no external call and
\* leave `out` as it is.  btnUserPressTime is written here and read nowhere;
\* the model leaves it out.
UserButtonPress ==
    /\ Running
    /\ Commit([Cur EXCEPT !.main.btnUserPressed = TRUE])
    /\ UNCHANGED iter

BootButtonPress ==
    /\ Running
    /\ Commit([Cur EXCEPT !.main.btnBootPressed = TRUE, !.main.btnBootPressTime = now])
    /\ UNCHANGED iter

----------------------------------------------------------------------------
(* Inputs *)

Priorities == {"low", "medium", "high", "urgent"}

NotificationMsg(table, priority) ==
    [wellFormed |-> TRUE, len |-> 120, type |-> "notification", table |-> table,
     alert |-> "waiter_called", message |-> "m", priority |-> priority,
     timestamp |-> NoTimestamp, id |-> Absent]

NoEvent == [type |-> "none", msg |-> NotificationMsg("", Absent)]

TextEvent(m) == [type |-> "WStype_TEXT", msg |-> m]

PlainEvent(type) == [type |-> type, msg |-> NotificationMsg("", Absent)]

\* deviceConfig of a device set up for one connection mode.  The portal's
\* form carries the mode (web_portal.cpp 88-92); Storage.saveConfig and
\* loadConfig (storage.cpp 20-89) do not keep it, so that after a restart the
\* firmware as it is reads "" and enables neither transport.  The
\* specifications below take the mode as given to setup().
ConfigFor(connMode) ==
    [configured |-> TRUE, mode |-> "bitsperbox", connection_mode |-> connMode,
     wifi_ssid |-> "net", ble_server_address |-> ""]

LoopInputs(wsEvs, bleOutcomes, ubs, bootLows, rssis, saveds) ==
    [wsEv : wsEvs, bleOutcome : bleOutcomes, ub : ubs, bootLow : bootLows,
     rssiWeak : rssis, saved : saveds]

----------------------------------------------------------------------------
(* SpecPresenter: the radio link is the enabled transport and stays up once *)
(* connected; notifications of every priority arrive from the BLE host task *)
(* between iterations of loop(); the user presses the USER button at any    *)
(* time.                                                                    *)

MaxIterPresenter == 6

PresenterSteps == {500, 30000}

PresenterMsgs ==
    {NotificationMsg(tb, p) : tb \in {"3", "5"}, p \in Priorities}
        \cup {NotificationMsg("5", Absent)}

PresenterCands == {[addr |-> "AA:01", service |-> TRUE, name |-> "BitsperBox"]}

QuietIns == LoopInputs({NoEvent}, {"ok"}, {"count_wraps"}, {FALSE}, {FALSE}, {FALSE})

NextPresenter ==
    \/ Setup({ConfigFor("ble")})
    \/ LoopStep(PresenterSteps, QuietIns, MaxIterPresenter)
    \/ BleScanResult(PresenterCands)
    \/ BleNotify(PresenterMsgs)
    \/ UserButtonPress

SpecPresenter == Init /\ [][NextPresenter]_vars

----------------------------------------------------------------------------
(* Vocabulary of the claims *)

Calls(o, name) == {i \in 1..Len(o) : o[i][1] = name}

ShownIn(o) == Calls(o, "Display.showNotification") # {}

\* A step that is one iteration of loop(), or the part of one that follows
\* the return of a blocking connect().
TickEnds == pc' = "loop" /\ (iter' = iter + 1 \/ pc = "loop_connect")

TickBegins == pc = "loop" /\ iter' = iter + 1

----------------------------------------------------------------------------
(* C1: at the end of every tick in the Connected state, an active           *)
(* notification of any priority is not older than NOTIFICATION_TIMEOUT: the *)
(* presenter has cleared it once more than 60 s have passed since its       *)
(* activation.                                                              *)

C1_AutoDismissAnyPriority ==
    (pc = "loop" /\ main.currentState = "STATE_CONNECTED" /\ main.hasActiveNotification)
        => Elapsed(now, main.notificationTime) <= NOTIFICATION_TIMEOUT

\* What the code does keep: the same for the priorities that blink.
C1_AutoDismissBlinking ==
    (pc = "loop" /\ main.currentState = "STATE_CONNECTED" /\ main.hasActiveNotification
        /\ shouldBlink(main.currentNotification.priority))
        => Elapsed(now, main.notificationTime) <= NOTIFICATION_TIMEOUT

----------------------------------------------------------------------------
(* C5: latest wins.  A step that shows a notification leaves it the active  *)
(* one, activated at the time of that show, whatever was active before; and *)
(* a notification that goes away without the user's dismiss goes away only  *)
(* when more than NOTIFICATION_TIMEOUT has passed since the activation of   *)
(* the notification that is active then, never at an earlier one's deadline.*)

C5_LatestWins ==
    [][ /\ (ShownIn(out') /\ ~TickEnds) =>
              /\ main'.hasActiveNotification
              /\ main'.notificationTime = now'
              /\ \A i \in Calls(out', "Display.showNotification") :
                     main'.currentNotification.table = out'[i][2]
        /\ (main.hasActiveNotification /\ ~main'.hasActiveNotification
               /\ ~main.btnUserPressed) =>
              Elapsed(now', main.notificationTime) > NOTIFICATION_TIMEOUT
      ]_vars

\* n2 of low priority has replaced a blinking n1 whose invert was on: nothing
\* but a show in between leaves the display inverted under a low priority.
C5_Witness ==
    /\ main.hasActiveNotification
    /\ main.currentNotification.priority = "low"
    /\ main.currentNotification.table = "3"
    /\ disp.invert
    /\ main.notificationTime = now
    /\ ShownIn(out)

----------------------------------------------------------------------------
(* C6: every show leaves the blink-phase flag off and the last-blink time   *)
(* equal to the activation time.                                            *)

C6_ShowResetsBlinkPhase ==
    [][ (ShownIn(out') /\ ~TickEnds) =>
            /\ ~main'.alertBlinkState
            /\ main'.lastBlink = main'.notificationTime ]_vars

----------------------------------------------------------------------------
(* C7: the blink flag toggles only in a step in which a notification is     *)
(* active whose priority is high or urgent, and only when more than         *)
(* ALERT_BLINK_INTERVAL has passed since the previous toggle, whose time    *)
(* lastBlink holds and nothing but a toggle changes.                        *)

C7_BlinkOnlyHighUrgent ==
    [][ /\ (main'.alertBlinkState # main.alertBlinkState) =>
              /\ main.hasActiveNotification \/ ShownIn(out')
              /\ main'.currentNotification.priority \in {"high", "urgent"}
              /\ Elapsed(now', main.lastBlink) > ALERT_BLINK_INTERVAL
              /\ main'.lastBlink = now'
              /\ disp'.invert = main'.alertBlinkState \/ ~main'.hasActiveNotification
        /\ (main'.lastBlink # main.lastBlink) =>
              main'.alertBlinkState # main.alertBlinkState
      ]_vars

C7_Witness ==
    /\ main.hasActiveNotification
    /\ main.currentNotification.priority = "urgent"
    /\ main.alertBlinkState
    /\ Calls(out, "Display.blinkAlert") # {}
    /\ main.lastBlink = now

----------------------------------------------------------------------------
(* C8: a tick that begins with the user's press pending and a notification  *)
(* active starts by switching the invert off and redrawing the idle view    *)
(* with the connection pair of that moment, and ends with no notification   *)
(* active, the invert off and the blink flag as it was; and while nothing   *)
(* is active and nothing is shown, neither the blink flag nor the invert    *)
(* changes.                                                                 *)

C8_UserDismissSameTick ==
    [][ /\ (TickBegins /\ main.btnUserPressed /\ main.hasActiveNotification) =>
              /\ Len(out') >= 2
              /\ out'[1] = <<"Display.blinkAlert", "false">>
              /\ out'[2] = <<"Display.showIdle",
                             ModeText(main.wifiConnected, main.bleConnected)>>
              /\ ~main'.btnUserPressed
              /\ ~ShownIn(out') =>
                    /\ ~main'.hasActiveNotification
                    /\ ~disp'.invert
                    /\ main'.alertBlinkState = main.alertBlinkState
        /\ (~main.hasActiveNotification /\ ~ShownIn(out')) =>
              /\ main'.alertBlinkState = main.alertBlinkState
              /\ disp'.invert = disp.invert
      ]_vars

\* The state a user's dismiss leaves: the notification is gone before its
\* deadline, by the two display calls of dismissNotification.
C8_Witness ==
    /\ ~main.hasActiveNotification
    /\ ~main.btnUserPressed
    /\ main.notificationTime > 0
    /\ Elapsed(now, main.notificationTime) <= NOTIFICATION_TIMEOUT
    /\ Len(out) >= 2
    /\ out[1] = <<"Display.blinkAlert", "false">>
    /\ out[2] = <<"Display.showIdle", "BLE">>
    /\ disp.view = "idle"
    /\ ~disp.invert

----------------------------------------------------------------------------
(* C9: a tick that begins with the user's press pending and no notification *)
(* active leaves the presenter's state as it was and differs from the same  *)
(* tick without the press in nothing: same display calls, same display,     *)
(* same state.                                                              *)

C9_DismissNothingActive ==
    [][ (TickBegins /\ main.btnUserPressed /\ ~main.hasActiveNotification) =>
            /\ ~main'.hasActiveNotification
            /\ main'.notificationTime = main.notificationTime
            /\ main'.currentNotification = main.currentNotification
            /\ main'.alertBlinkState = main.alertBlinkState
            /\ main'.lastBlink = main.lastBlink
            /\ disp'.invert = disp.invert
            /\ ~main'.btnUserPressed
            /\ \E d \in PresenterSteps, in \in QuietIns :
                  LET r == loop([Fresh EXCEPT !.now = now + d,
                                              !.main.btnUserPressed = FALSE], in)
                  IN  /\ r.now = now'
                      /\ r.out = out'
                      /\ r.disp = disp'
                      /\ r.main = main'
                      /\ r.ble = ble'
      ]_vars

\* The press is pending with nothing active, after a notification has been
\* shown and has gone, and a tick can still handle it.
C9_Witness ==
    /\ pc = "loop"
    /\ main.btnUserPressed
    /\ ~main.hasActiveNotification
    /\ main.notificationTime > 0
    /\ main.alertBlinkState
    /\ iter < MaxIterPresenter

----------------------------------------------------------------------------
(* C10: a step taken by a driver callback leaves the presenter's state, the *)
(* coordinator's connected flags and the links' connection state and        *)
(* reconnect counters as they were.                                         *)

C10_CallbacksOnlySetFlags ==
    [][ (BleNotify(PresenterMsgs) \/ BleScanResult(PresenterCands)) =>
            /\ main'.hasActiveNotification = main.hasActiveNotification
            /\ main'.notificationTime = main.notificationTime
            /\ main'.currentNotification = main.currentNotification
            /\ main'.wifiConnected = main.wifiConnected
            /\ main'.bleConnected = main.bleConnected
            /\ ble'.connected = ble.connected
            /\ ble'.state = ble.state
            /\ ble'.reconnectAttempts = ble.reconnectAttempts
            /\ wifi'.state = wifi.state
            /\ wifi'.reconnectAttempts = wifi.reconnectAttempts
            /\ ws'.connected = ws.connected
            /\ ws'.reconnectAttempts = ws.reconnectAttempts
      ]_vars

----------------------------------------------------------------------------
(* SpecWs: the network link is the enabled transport; the WiFi association  *)
(* comes up during setup() and stays; the socket library reports connects,  *)
(* disconnects, errors, pings and messages inside WsClient.loop().          *)

MaxIterWs == 6

WsSteps == {1000, 30000}

WsEvents ==
    {NoEvent, PlainEvent("WStype_CONNECTED"), PlainEvent("WStype_DISCONNECTED"),
     PlainEvent("WStype_PING"), PlainEvent("WStype_ERROR"),
     TextEvent(NotificationMsg("5", "high"))}

WsIns == LoopInputs(WsEvents, {"ok"}, {"count_wraps"}, {FALSE}, {FALSE}, {FALSE})

NextWs ==
    \/ Setup({ConfigFor("wifi")})
    \/ WifiEvent({"STA_GOT_IP"}, 1)
    \/ ConnectReturns(WsIns)
    \/ LoopStep(WsSteps, WsIns, MaxIterWs)

SpecWs == Init /\ [][NextWs]_vars

----------------------------------------------------------------------------
(* SpecWifi: the network link is the enabled transport; the WiFi driver's   *)
(* event task reports associations and disconnects at any time; the socket  *)
(* stays silent.                                                            *)

MaxIterWifi == 5

MaxWifiAttempts == 12

WifiSteps == {1000, 30000}

NextWifi ==
    \/ Setup({ConfigFor("wifi")})
    \/ WifiEvent({"STA_CONNECTED", "STA_GOT_IP", "STA_DISCONNECTED"}, MaxWifiAttempts)
    \/ ConnectReturns(QuietIns)
    \/ LoopStep(WifiSteps, QuietIns, MaxIterWifi)

SpecWifi == Init /\ [][NextWifi]_vars

----------------------------------------------------------------------------
(* SpecBle: the radio link is the enabled transport; a scan finds the peer  *)
(* or ends without it, and the peer refuses every connection.               *)

MaxIterBle == 64

BleSteps == {30000}

ShiftChoices == {"count_wraps", "zero"}

BleIns == LoopInputs({NoEvent}, {"connect_failed"}, ShiftChoices, {FALSE}, {FALSE}, {FALSE})

NextBle ==
    \/ Setup({ConfigFor("ble")})
    \/ LoopStep(BleSteps, BleIns, MaxIterBle)
    \/ BleScanResult(PresenterCands)
    \/ BleScanComplete

SpecBle == Init /\ [][NextBle]_vars

----------------------------------------------------------------------------
(* C2: for each of the three links, a failure that follows a failure leaves *)
(* a backoff interval not smaller than the one before and never more than   *)
(* 30000 ms, and a successful connection puts the link back at its minimum  *)
(* (for the radio link: at attempt 0, whose delay is BLE_RECONNECT_DELAY).  *)

C2_WifiBackoff ==
    /\ (wifi'.reconnectAttempts = wifi.reconnectAttempts + 1) =>
          /\ wifi'.currentBackoff >= wifi.currentBackoff
          /\ wifi'.currentBackoff <= WIFI_MAX_BACKOFF
    /\ (wifi'.state = "WIFI_STATE_CONNECTED" /\ wifi.state # "WIFI_STATE_CONNECTED") =>
          /\ wifi'.currentBackoff = WIFI_MIN_BACKOFF
          /\ wifi'.reconnectAttempts = 0

C2_WsBackoff ==
    /\ (ws'.reconnectAttempts > ws.reconnectAttempts) =>
          /\ ws'.currentBackoff >= ws.currentBackoff
          /\ ws'.currentBackoff <= WS_MAX_BACKOFF
    /\ (ws'.connected /\ ~ws.connected) =>
          /\ ws'.currentBackoff = WS_MIN_BACKOFF
          /\ ws'.reconnectAttempts = 0

C2_BleBackoff ==
    /\ (ble'.reconnectAttempts = ble.reconnectAttempts + 1) =>
          /\ ble'.lastDelay <= BLE_MAX_DELAY
          /\ ble.reconnectAttempts >= 1 => ble'.lastDelay >= ble.lastDelay
    /\ (ble'.connected /\ ~ble.connected) => ble'.reconnectAttempts = 0

C2_BackoffMonotoneBounded == [][C2_WifiBackoff /\ C2_WsBackoff /\ C2_BleBackoff]_vars

\* The parts the code keeps, each under the specification that moves its link.
C2_WifiPart == [][C2_WifiBackoff]_vars

C2_WsPart == [][C2_WsBackoff]_vars

----------------------------------------------------------------------------
(* C3: a network failure is the tenth in a row exactly when it takes the    *)
(* device to configuration mode: the WiFi manager enters AP mode with no    *)
(* retry scheduled and the device state is STATE_AP_MODE; once there, no    *)
(* further disconnect counts, re-enters or schedules a retry.               *)

C3_TenthFailureConfigMode ==
    [][ /\ (wifi'.reconnectAttempts = wifi.reconnectAttempts + 1) =>
              /\ (wifi'.reconnectAttempts = WIFI_MAX_RECONNECT_ATTEMPTS)
                     <=> (wifi'.state = "WIFI_STATE_AP_MODE"
                            /\ wifi.state # "WIFI_STATE_AP_MODE")
              /\ (wifi'.state = "WIFI_STATE_AP_MODE") =>
                     /\ main'.currentState = "STATE_AP_MODE"
                     /\ ~wifi'.reconnectScheduled
        /\ (wifi.state = "WIFI_STATE_AP_MODE" /\ wifi'.state = "WIFI_STATE_AP_MODE") =>
              /\ wifi'.reconnectAttempts = wifi.reconnectAttempts
              /\ ~wifi'.reconnectScheduled
      ]_vars

\* What the code does: the manager enters AP mode at every failure counted
\* past the tenth, and the device state does not follow.
C3_EleventhFailureManagerOnly ==
    [][ (wifi'.reconnectAttempts = wifi.reconnectAttempts + 1) =>
            /\ (wifi'.reconnectAttempts > WIFI_MAX_RECONNECT_ATTEMPTS)
                   <=> (wifi'.state = "WIFI_STATE_AP_MODE")
            /\ main'.currentState = main.currentState
      ]_vars

----------------------------------------------------------------------------
(* C4: in a tick that runs WsClient.loop() with the socket connected, more  *)
(* than WS_WATCHDOG_TIMEOUT since the last inbound event and no event       *)
(* delivered, the watchdog forces the disconnect and the client is no       *)
(* longer connected; and the watchdog fires in no other tick: not when the  *)
(* client is not connected, not at 60 s or less of silence.                 *)

\* No event reaches handleEvent before the watchdog looks: the events of the
\* tick, if any, follow the watchdog's own disconnect.
SilentTick(o) ==
    \A i \in Calls(o, "ws.event") : \E j \in Calls(o, "ws.watchdog") : j < i

C4_WatchdogFires ==
    [][ TickEnds =>
            /\ (ws.connected
                  /\ Elapsed(now', ws.lastActivity) > WS_WATCHDOG_TIMEOUT
                  /\ SilentTick(out')) =>
                      /\ Calls(out', "ws.watchdog") # {}
                      /\ Calls(out', "ws.disconnect") # {}
                      /\ ~ws'.connected
            /\ Calls(out', "ws.watchdog") # {} =>
                  /\ ws.connected
                  /\ Elapsed(now', ws.lastActivity) > WS_WATCHDOG_TIMEOUT
                  /\ ~ws'.connected
      ]_vars

C4_Witness ==
    /\ Calls(out, "ws.watchdog") # {}
    /\ Calls(out, "ws.disconnect") # {}
    /\ ~ws.connected
    /\ ~drv.wsUp
    /\ ws.reconnectAttempts = 1

----------------------------------------------------------------------------
(* SpecTick: a device with no stored configuration (portal up, a POST /save  *)
(* may be served) or set up for the network link (notifications arrive      *)
(* inside WsClient.loop()); both buttons can be pressed at any time.        *)

MaxIterTick == 5

TickSteps == {500, 3500}

TickEvents ==
    {NoEvent, PlainEvent("WStype_CONNECTED"), TextEvent(NotificationMsg("7", "high"))}

TickIns == LoopInputs(TickEvents, {"ok"}, {"count_wraps"}, {FALSE, TRUE}, {FALSE}, {FALSE, TRUE})

NextTick ==
    \/ Setup({NoConfig, ConfigFor("wifi")})
    \/ WifiEvent({"STA_GOT_IP"}, 1)
    \/ ConnectReturns(TickIns)
    \/ LoopStep(TickSteps, TickIns, MaxIterTick)
    \/ UserButtonPress
    \/ BootButtonPress

SpecTick == Init /\ [][NextTick]_vars

----------------------------------------------------------------------------
(* C11, as stated: the buttons are handled first in every iteration and the *)
(* scheduled restart comes last, so that an iteration that ends in a        *)
(* restart has consumed the USER press that was pending when it began.      *)

C11_ButtonsBeforeRestart ==
    [][ (TickBegins /\ pc' = "restarted" /\ main.btnUserPressed) =>
            ~main'.btnUserPressed ]_vars

(* C11, amended: an iteration first tests the scheduled restart and, when   *)
(* it is due, restarts with nothing else done; otherwise it handles the     *)
(* buttons, then polls the transports, then runs the presenter's timing.    *)
(* So a pending dismiss is applied before a notification that arrives in    *)
(* the same iteration, which is the one active at its end and the one the   *)
(* presenter's timing of that iteration works on.                           *)

ScheduledRestartOnly(o) == o = <<(<<"ESP.restart", "">>)>>

C11_TickOrder ==
    [][ TickBegins =>
          /\ (pc' = "restarted" /\ ScheduledRestartOnly(out')) =>
                /\ main.shouldRestart
                /\ now' > main.restartTime
                /\ main' = main
          /\ (main.shouldRestart /\ \A d \in TickSteps : now + d > main.restartTime) =>
                /\ pc' = "restarted"
                /\ ScheduledRestartOnly(out')
          /\ (main.btnUserPressed /\ ~ScheduledRestartOnly(out')) =>
                /\ ~main'.btnUserPressed
                /\ main.hasActiveNotification =>
                      /\ Len(out') >= 2
                      /\ out'[1] = <<"Display.blinkAlert", "false">>
                      /\ out'[2][1] = "Display.showIdle"
                      /\ \A i \in Calls(out', "WifiMgr.loop") \cup Calls(out', "WsClient.loop")
                                   \cup Calls(out', "ws.event") : i > 2
          /\ \A i \in Calls(out', "WifiMgr.loop"), j \in Calls(out', "WsClient.loop") : i < j
          /\ ShownIn(out') =>
                /\ main'.hasActiveNotification
                /\ main'.currentNotification.table = "7"
                /\ main'.notificationTime = now'
                /\ \A i \in Calls(out', "ws.event"),
                      j \in Calls(out', "Display.showNotification") : i < j
                /\ Elapsed(now', main.lastBlink) > ALERT_BLINK_INTERVAL =>
                      /\ main'.alertBlinkState # main.alertBlinkState
                      /\ main'.lastBlink = now'
                      /\ out'[Len(out')] =
                             <<"Display.blinkAlert", BoolStr(main'.alertBlinkState)>>
      ]_vars

\* One iteration has dismissed the old notification, then shown the new one,
\* then toggled the blink for the new one.
C11_Witness ==
    /\ Len(out) >= 7
    /\ out[1] = <<"Display.blinkAlert", "false">>
    /\ out[2][1] = "Display.showIdle"
    /\ out[3] = <<"WifiMgr.loop", "">>
    /\ out[4] = <<"WsClient.loop", "">>
    /\ out[5][1] = "ws.event"
    /\ ShownIn(out)
    /\ out[Len(out)][1] = "Display.blinkAlert"
    /\ main.hasActiveNotification
    /\ main.notificationTime = now

----------------------------------------------------------------------------
(* SpecBleLink: the radio link is the enabled transport; the peer accepts   *)
(* or refuses a connection, and an established link drops at any time.      *)

MaxIterBleLink == 6

MaxBleAttempts == 3

BleLinkSteps == {1000, 6000}

BleLinkIns ==
    LoopInputs({NoEvent}, {"connect_failed", "ok"}, {"count_wraps"}, {FALSE}, {FALSE}, {FALSE})

NextBleLink ==
    \/ Setup({ConfigFor("ble")})
    \/ LoopStep(BleLinkSteps, BleLinkIns, MaxIterBleLink)
    \/ BleScanResult(PresenterCands)
    \/ BleScanComplete
    \/ BleDisconnected({"count_wraps"}, MaxBleAttempts)

SpecBleLink == Init /\ [][NextBleLink]_vars

----------------------------------------------------------------------------
(* C12: a success event of a link (WiFi associated or got its address, the  *)
(* socket connected, the radio link connected) leaves the link's attempt    *)
(* count at zero, its backoff at the minimum and no retry pending; and a    *)
(* tick starts a WiFi reconnect or a radio scan on behalf of a retry only   *)
(* when a failure has been counted since the last success.                  *)

C12_WifiSuccess ==
    /\ (wifi.reconnectAttempts > 0 /\ wifi'.reconnectAttempts = 0) =>
          /\ wifi'.currentBackoff = WIFI_MIN_BACKOFF
          /\ ~wifi'.reconnectScheduled
    /\ (TickBegins /\ Calls(out', "WiFi.begin") # {}) => wifi.reconnectAttempts > 0

C12_WsSuccess ==
    (ws'.connected /\ ~ws.connected) =>
        /\ ws'.reconnectAttempts = 0
        /\ ws'.currentBackoff = WS_MIN_BACKOFF

C12_BleSuccess ==
    (ble'.connected /\ ~ble.connected) =>
        /\ ble'.reconnectAttempts = 0
        /\ ble'.lastReconnect = 0
        /\ ~ble'.doScan

C12_SuccessCancelsRetry == [][C12_WifiSuccess /\ C12_WsSuccess /\ C12_BleSuccess]_vars

\* The radio part alone, under the specification that moves the radio link.
C12_BlePart == [][C12_BleSuccess]_vars

\* The socket part alone.
C12_WsPart == [][C12_WsSuccess]_vars

----------------------------------------------------------------------------
(* C13: every radio failure, whatever its number n in a row, leaves the     *)
(* device state as it is (no configuration mode) and schedules the retry    *)
(* min(3000 * 2^(n-1), 30000) ms ahead: 3000, 6000, 12000, 24000 and then   *)
(* 30000 for every n >= 5.                                                  *)

C13_ExpectedDelay(n) ==
    IF n >= 5 THEN BLE_MAX_DELAY ELSE Min(BLE_RECONNECT_DELAY * (2 ^ (n - 1)), BLE_MAX_DELAY)

C13_RadioFailure == ble'.reconnectAttempts = ble.reconnectAttempts + 1

C13_NoCeiling ==
    [][ C13_RadioFailure =>
            /\ main'.currentState = main.currentState
            /\ wifi'.state = wifi.state
            /\ ~drv'.portalRunning ]_vars

C13_RadioDelayNoCeiling ==
    [][ C13_RadioFailure =>
            /\ main'.currentState = main.currentState
            /\ wifi'.state = wifi.state
            /\ ~drv'.portalRunning
            /\ ble'.lastDelay = C13_ExpectedDelay(ble'.reconnectAttempts)
            /\ ble'.lastReconnect = now' + C13_ExpectedDelay(ble'.reconnectAttempts) ]_vars

----------------------------------------------------------------------------
(* C14: the delay applied to the k-th failure in a row of a link is         *)
(* min(minimum * 2^(k-1), 30000) ms, the minimum being 1000 for the WiFi    *)
(* manager and the socket and 3000 for the radio link, so that the first    *)
(* failure after a success waits the minimum; and a link's backoff changes  *)
(* only in a step that counts a failure or reports a success of that link.  *)

C14_Expected(minimum, k) ==
    IF k >= 6 THEN 30000 ELSE Min(minimum * (2 ^ (k - 1)), 30000)

C14_WifiDelay ==
    (wifi'.reconnectAttempts = wifi.reconnectAttempts + 1 /\ wifi'.reconnectScheduled) =>
        /\ wifi'.currentBackoff = C14_Expected(WIFI_MIN_BACKOFF, wifi'.reconnectAttempts)
        /\ wifi'.nextReconnect = now' + wifi'.currentBackoff

\* A socket failure that is the first after a success or after begin().
C14_WsFirstDelay ==
    (ws.reconnectAttempts = 0 /\ ws'.reconnectAttempts = 1 /\ ws.currentBackoff = WS_MIN_BACKOFF) =>
        ws'.currentBackoff = WS_MIN_BACKOFF

C14_BleDelay ==
    (ble'.reconnectAttempts = ble.reconnectAttempts + 1 /\ ble'.reconnectAttempts < 20) =>
        ble'.lastDelay = C14_Expected(BLE_RECONNECT_DELAY, ble'.reconnectAttempts)

C14_WifiOnlyOnEvents ==
    (wifi'.currentBackoff # wifi.currentBackoff) =>
        \/ wifi'.reconnectAttempts = wifi.reconnectAttempts + 1
        \/ wifi'.reconnectAttempts = 0

C14_WsOnlyOnEvents ==
    (ws'.currentBackoff # ws.currentBackoff) =>
        \E i \in Calls(out', "ws.event") :
            out'[i][2] \in {"WStype_DISCONNECTED", "WStype_CONNECTED"}

C14_BackoffDoublesFromMinimum ==
    [][ /\ C14_WifiDelay
        /\ C14_WsFirstDelay
        /\ C14_BleDelay
        /\ C14_WifiOnlyOnEvents
        /\ C14_WsOnlyOnEvents ]_vars

\* The parts, one by one.
C14_WifiDelayPart == [][C14_WifiDelay]_vars

C14_WsFirstDelayPart == [][C14_WsFirstDelay]_vars

C14_BleDelayPart == [][C14_BleDelay]_vars

C14_WifiOnlyOnEventsPart == [][C14_WifiOnlyOnEvents]_vars

C14_WsOnlyOnEventsPart == [][C14_WsOnlyOnEvents]_vars

----------------------------------------------------------------------------
(* SpecBoot: setup() finds no configuration or one of every connection mode *)
(* (the empty mode is what Storage.loadConfig leaves), the bounded connect  *)
(* succeeds or times out, and the loop then runs with both links' events.   *)

MaxIterBoot == 3

MaxBootAttempts == 1

BootConfigs ==
    {NoConfig, ConfigFor(""), ConfigFor("wifi"), ConfigFor("ble"), ConfigFor("both"),
     [ConfigFor("both") EXCEPT !.mode = "direct"]}

BootSteps == {6000}

BootEvents == {NoEvent, PlainEvent("WStype_CONNECTED")}

BootIns == LoopInputs(BootEvents, {"ok"}, {"count_wraps"}, {FALSE}, {FALSE}, {FALSE})

NextBoot ==
    \/ Setup(BootConfigs)
    \/ WifiEvent({"STA_GOT_IP", "STA_DISCONNECTED"}, MaxBootAttempts)
    \/ ConnectReturns(BootIns)
    \/ LoopStep(BootSteps, BootIns, MaxIterBoot)
    \/ BleScanResult(PresenterCands)
    \/ BleScanComplete
    \/ BleDisconnected({"count_wraps"}, MaxBootAttempts)

SpecBoot == Init /\ [][NextBoot]_vars

----------------------------------------------------------------------------
(* C15: setup() with a saved configuration attempts the network connect     *)
(* exactly once when the mode enables the network, and the wait ends within *)
(* WIFI_CONNECT_TIMEOUT and one poll; when the connect fails and the radio  *)
(* is not enabled the device enters configuration mode (STATE_AP_MODE, the  *)
(* portal started), and in every other case Connected mode; without a saved *)
(* configuration it enters configuration mode.  (The 2000 ms added to the   *)
(* bound are the delay(2000) of enterConnectedMode, which follows the wait.)*)

C15_InApMode ==
    main'.currentState = "STATE_AP_MODE" /\ drv'.portalRunning /\ Calls(out', "Portal.begin") # {}

C15_InConnectedMode ==
    main'.currentState = "STATE_CONNECTED" /\ ~drv'.portalRunning

C15_SetupStarts ==
    pc = "boot" =>
        LET c == main'.deviceConfig
        IN  /\ ~c.configured => pc' = "loop" /\ C15_InApMode /\ Calls(out', "WiFi.begin") = {}
            /\ (c.configured /\ UsesWiFi(c.connection_mode)) =>
                  /\ pc' = "setup_connect"
                  /\ Cardinality(Calls(out', "WiFi.begin")) = 1
                  /\ main'.currentState = "STATE_CONNECTING"
            /\ (c.configured /\ ~UsesWiFi(c.connection_mode)) =>
                  /\ pc' = "loop"
                  /\ C15_InConnectedMode
                  /\ Calls(out', "WiFi.begin") = {}

C15_SetupWaits ==
    (pc = "setup_connect" /\ pc' = "setup_connect") =>
        /\ main'.currentState = "STATE_CONNECTING"
        /\ Calls(out', "WiFi.begin") = {}

C15_SetupEnds ==
    (pc = "setup_connect" /\ pc' # "setup_connect") =>
        /\ pc' = "loop"
        /\ now' <= wifi.connectStart + WIFI_CONNECT_TIMEOUT + 250 + 2000
        /\ Calls(out', "WiFi.begin") = {}
        /\ IF drv.wlConnected \/ UsesBLE(main.deviceConfig.connection_mode)
           THEN C15_InConnectedMode
           ELSE C15_InApMode

C15_StartupPolicy == [][C15_SetupStarts /\ C15_SetupWaits /\ C15_SetupEnds]_vars

\* The connect has timed out with the network as the only transport.
C15_Witness ==
    /\ pc = "loop"
    /\ iter = 0
    /\ main.deviceConfig.connection_mode = "wifi"
    /\ main.currentState = "STATE_AP_MODE"
    /\ now > wifi.connectStart + WIFI_CONNECT_TIMEOUT
    /\ Calls(out, "Portal.begin") # {}

----------------------------------------------------------------------------
(* C16: with the radio as the only configured transport no step begins the  *)
(* socket client or calls WifiMgr.loop() or WsClient.loop(); with the       *)
(* network as the only configured transport no step initialises the BLE     *)
(* client, starts or requests a scan, or calls BleClient.loop().            *)

C16_NoneOf(o, names) == \A i \in 1..Len(o) : o[i][1] \notin names

C16_RadioOnly ==
    (main'.deviceConfig.configured /\ main'.deviceConfig.connection_mode = "ble") =>
        /\ C16_NoneOf(out', {"ws.begin", "WifiMgr.loop", "WsClient.loop", "ws.event",
                             "ws.sendTXT", "WiFi.begin"})
        /\ ~drv'.wsBegun
        /\ ws' = ws

C16_NetworkOnly ==
    (main'.deviceConfig.configured /\ main'.deviceConfig.connection_mode = "wifi") =>
        /\ C16_NoneOf(out', {"BLEDevice.init", "BLEScan.start", "BleClient.loop",
                             "BLEClient.connect"})
        /\ ~drv'.bleBegun
        /\ ~drv'.bleScanning
        /\ ble' = ble

----------------------------------------------------------------------------
(* C17: from STATE_CONNECTED no step that is not a restart leaves            *)
(* STATE_CONNECTED, whatever the links report (disconnects, errors, the     *)
(* watchdog, failed reconnects); a callback of a driver changes nothing of  *)
(* the device's own state but wifiConnected and bleConnected; a flag that   *)
(* falls or rises redraws the idle view with the status of that moment when *)
(* no notification is active, and leaves the display's status as it is when *)
(* one is active.                                                           *)

C17_FlagRises ==
    \/ main'.wifiConnected /\ ~main.wifiConnected
    \/ main'.bleConnected /\ ~main.bleConnected

C17_FlagFalls ==
    \/ ~main'.wifiConnected /\ main.wifiConnected
    \/ ~main'.bleConnected /\ main.bleConnected

C17_StatusShown(o, w, b) == \E i \in Calls(o, "Display.showIdle") : o[i][2] = ModeText(w, b)

C17_StaysConnected ==
    (main.currentState = "STATE_CONNECTED" /\ pc' # "restarted") =>
        /\ main'.currentState = "STATE_CONNECTED"
        /\ main'.deviceConfig = main.deviceConfig
        /\ main'.useWiFi = main.useWiFi
        /\ main'.useBLE = main.useBLE
        /\ main'.shouldRestart = main.shouldRestart
        /\ ~drv'.portalRunning
        /\ ~TickBegins =>
              main' = [main EXCEPT !.wifiConnected = main'.wifiConnected,
                                   !.bleConnected = main'.bleConnected]

C17_StatusFollows ==
    (main.currentState = "STATE_CONNECTED" /\ (C17_FlagRises \/ C17_FlagFalls)) =>
        IF main.hasActiveNotification
        THEN main'.hasActiveNotification =>
                 /\ Calls(out', "Display.showIdle") = {}
                 /\ disp'.connected = disp.connected
                 /\ disp'.mode = disp.mode
        ELSE C17_StatusShown(out', main'.wifiConnected, main'.bleConnected)

C17_ConnectedStays == [][C17_StaysConnected /\ C17_StatusFollows]_vars

\* The claim as stated: every regained transport redraws the status as
\* connected.
C17_RegainShowsConnected ==
    [][ (main.currentState = "STATE_CONNECTED" /\ C17_FlagRises) =>
            /\ C17_StatusShown(out', main'.wifiConnected, main'.bleConnected)
            /\ disp'.connected ]_vars

\* The socket was lost and is regained with no notification active: the
\* idle view is back to "WiFi".
C17_Witness ==
    /\ main.currentState = "STATE_CONNECTED"
    /\ ws.connected
    /\ main.wifiConnected
    /\ ~main.hasActiveNotification
    /\ iter >= 3
    /\ Calls(out, "ws.event") # {}
    /\ \A i \in Calls(out, "ws.event") : out[i][2] = "WStype_CONNECTED"
    /\ C17_StatusShown(out, TRUE, FALSE)
    /\ disp.view = "idle"
    /\ disp.connected

----------------------------------------------------------------------------
(* SpecRestart: the device is in configuration mode (nothing stored, or the *)
(* only transport's connect timed out); the portal serves a save in any of  *)
(* the first MaxSaveTicks iterations; the BOOT button is pressed and held   *)
(* at any time.  loop() is called again and again for ever, which is the    *)
(* fairness of the quiet iterations.                                        *)

MaxSaveTicks == 2

RestartSteps == {500, 3500}

\* The iterations that more than RESTART_DELAY takes at the shortest step.
QuietTicks == (RESTART_DELAY \div 500) + 1

MaxIterRestart == MaxSaveTicks + QuietTicks

RestartSaveIns == LoopInputs({NoEvent}, {"ok"}, {"count_wraps"}, {FALSE, TRUE}, {FALSE}, {TRUE})

RestartQuietIns == LoopInputs({NoEvent}, {"ok"}, {"count_wraps"}, {FALSE, TRUE}, {FALSE}, {FALSE})

NextRestart ==
    \/ Setup({NoConfig, ConfigFor("wifi")})
    \/ ConnectReturns(RestartQuietIns)
    \/ LoopStep(RestartSteps, RestartSaveIns, MaxSaveTicks)
    \/ LoopStep(RestartSteps, RestartQuietIns, MaxIterRestart)
    \/ BootButtonPress

SpecRestart ==
    /\ Init
    /\ [][NextRestart]_vars
    /\ WF_vars(Setup({NoConfig, ConfigFor("wifi")}))
    /\ WF_vars(ConnectReturns(RestartQuietIns))
    /\ WF_vars(LoopStep(RestartSteps, RestartQuietIns, MaxIterRestart))

----------------------------------------------------------------------------
(* C18: in configuration mode a served save sets the restart for            *)
(* RESTART_DELAY ms after it and nothing else sets or moves it; an          *)
(* iteration restarts the device by the scheduled path only when a restart  *)
(* is set and the time is past it, and every iteration that begins past it  *)
(* does restart; so that, loop() running for ever, a set restart eventually *)
(* happens, and with none set the scheduled path never restarts.            *)

C18_SaveServed == Calls(out', "Storage.saveConfig") # {}

C18_Schedules ==
    /\ C18_SaveServed =>
          /\ main.currentState = "STATE_AP_MODE"
          /\ main'.shouldRestart
          /\ main'.restartTime = now' + RESTART_DELAY
    /\ ~C18_SaveServed =>
          /\ main'.shouldRestart = main.shouldRestart
          /\ main'.restartTime = main.restartTime

C18_RestartsOnlyWhenDue ==
    (TickBegins /\ ScheduledRestartOnly(out')) =>
        /\ pc' = "restarted"
        /\ main.shouldRestart
        /\ now' > main.restartTime
        /\ now' - (main.restartTime - RESTART_DELAY) > 3000

\* now' is the time at the end of the iteration; the iteration has begun past
\* the restart time for certain when every step length leads past it.
C18_RestartsWhenDue ==
    (TickBegins /\ main.shouldRestart) =>
        /\ now' > main.restartTime => pc' = "restarted"
        /\ (\A d \in RestartSteps : now + d > main.restartTime) =>
               ScheduledRestartOnly(out')

----------------------------------------------------------------------------
(* SpecParse: both transports are enabled and come up; messages of every    *)
(* kind arrive over the socket (inside WsClient.loop()) and over the radio  *)
(* link (from the BLE host task), with the priority, the timestamp and the  *)
(* id present or missing, and short or as long as the radio link carries.   *)

MaxIterParse == 4

ParseSteps == {1000}

ParseNotifications ==
    {[NotificationMsg("5", p) EXCEPT !.timestamp = ts, !.len = l] :
        p \in {Absent, "low", "urgent"}, ts \in {NoTimestamp, 77, BigTimestamp},
        l \in {120, BLE_JSON_BUFFER}}
    \cup {[NotificationMsg("6", "high") EXCEPT !.id = i] : i \in {"n1", ""}}

\* Notifications whose fields are as long as the fields of NotificationData
\* hold, and one character longer.
LongNotifications ==
    {[NotificationMsg(LongText(TABLE_SIZE - 1 + k), LongText(PRIORITY_SIZE - 1 + k))
        EXCEPT !.alert = LongText(TYPE_SIZE - 1 + k),
               !.message = LongText(MESSAGE_SIZE - 1 + k),
               !.len = 400] : k \in {0, 1}}

OtherMsg(type) == [NotificationMsg("9", "urgent") EXCEPT !.type = type, !.id = "n2"]

MalformedMsg == [NotificationMsg("9", "urgent") EXCEPT !.wellFormed = FALSE, !.id = "n3"]

ParseOthers ==
    {OtherMsg(k) : k \in {"pong", "registered", "heartbeat_ack", "welcome", "ping", "bogus"}}
    \cup {MalformedMsg}

ParseEvents ==
    {NoEvent, PlainEvent("WStype_CONNECTED")}
    \cup {TextEvent(m) : m \in ParseNotifications \cup LongNotifications \cup ParseOthers}

ParseIns == LoopInputs(ParseEvents, {"ok"}, {"count_wraps"}, {FALSE}, {FALSE}, {FALSE})

NextParse ==
    \/ Setup({ConfigFor("both")})
    \/ WifiEvent({"STA_GOT_IP"}, 1)
    \/ ConnectReturns(ParseIns)
    \/ LoopStep(ParseSteps, ParseIns, MaxIterParse)
    \/ BleScanResult(PresenterCands)
    \/ BleNotify(ParseNotifications \cup LongNotifications \cup ParseOthers)

SpecParse == Init /\ [][NextParse]_vars

----------------------------------------------------------------------------
(* C19: a well-formed notification message received over the socket or over *)
(* the radio link becomes the current notification with its table, alert    *)
(* and message, with priority "medium" when the priority is missing and the *)
(* given one otherwise, and with the time of receipt as timestamp when the  *)
(* timestamp is missing and the given one otherwise; and both transports    *)
(* make the same notification of the same payload.                          *)

C19_Expected(m, receipt) ==
    [table |-> m.table, alert |-> m.alert, message |-> m.message,
     priority |-> IF m.priority = Absent THEN "medium" ELSE m.priority,
     timestamp |-> IF m.timestamp = NoTimestamp THEN receipt ELSE m.timestamp]

C19_Presented(s) ==
    IF s.main.hasActiveNotification THEN s.main.currentNotification ELSE EmptyNotification

C19_OverSocket(m) == C19_Presented(WsHandleMessage([Fresh EXCEPT !.main.hasActiveNotification = FALSE], m))

C19_OverRadio(m) == C19_Presented(BleParseNotification([Fresh EXCEPT !.main.hasActiveNotification = FALSE], m))

C19_LinksUp == pc = "loop" /\ ws.connected /\ drv.bleLinkUp /\ ble.pNotifyChar

C19_ParsedAsGiven ==
    C19_LinksUp =>
        \A m \in ParseNotifications :
            /\ C19_OverSocket(m) = C19_Expected(m, now)
            /\ C19_OverRadio(m) = C19_Expected(m, now)
            /\ C19_OverSocket(m) = C19_OverRadio(m)

\* What the code keeps: the defaults, for a timestamp that unsigned long
\* holds and a payload that fits the radio client's buffer.
C19_Fits(m) == m.timestamp # BigTimestamp /\ m.len < BLE_JSON_BUFFER

C19_ParsedAsGivenWhenFits ==
    C19_LinksUp =>
        \A m \in {x \in ParseNotifications : C19_Fits(x)} :
            /\ C19_OverSocket(m) = C19_Expected(m, now)
            /\ C19_OverRadio(m) = C19_Expected(m, now)

\* The payloads of which the two transports make different notifications.
C19_SameApartFromLength ==
    C19_LinksUp =>
        \A m \in ParseNotifications :
            C19_OverSocket(m) # C19_OverRadio(m) => m.len >= BLE_JSON_BUFFER

----------------------------------------------------------------------------
(* C20: a message that is malformed or of a kind other than notification,  *)
(* received over the socket or over the radio link, changes nothing of the  *)
(* presenter, the display, the links' connection status and their reconnect *)
(* counters, and sends no acknowledgment; over the radio link it sends      *)
(* nothing at all; over the socket it sends nothing but, for a message of   *)
(* kind ping, the pong that answers it (and the client notes the time of    *)
(* the message as its last activity).                                       *)

C20_Quiet(r) ==
    /\ r.main = main
    /\ r.disp = disp
    /\ r.wifi = wifi
    /\ r.ble = ble
    /\ r.drv = drv
    /\ r.ws = [ws EXCEPT !.lastActivity = r.ws.lastActivity]
    /\ r.pc = pc
    /\ Calls(r.out, "ws.sendTXT.ack") = {}
    /\ Calls(r.out, "Display.showNotification") = {}

C20_IsPing(m) == m.wellFormed /\ m.type = "ping"

C20_OthersChangeNothing ==
    C19_LinksUp =>
        \A m \in ParseOthers :
            LET overSocket == WsHandleMessage(Fresh, m)
                overRadio == BleParseNotification(Fresh, m)
            IN  /\ C20_Quiet(overSocket)
                /\ overSocket.out = IF C20_IsPing(m) THEN <<(<<"ws.sendTXT", "pong">>)>> ELSE <<>>
                /\ overSocket.ws.lastActivity = now
                /\ C20_Quiet(overRadio)
                /\ overRadio.out = <<>>
                /\ overRadio.ws = ws

\* The claim as stated: no such message sends anything.
C20_OthersSendNothing ==
    C19_LinksUp =>
        \A m \in ParseOthers :
            /\ WsHandleMessage(Fresh, m).out = <<>>
            /\ BleParseNotification(Fresh, m).out = <<>>

\* An iteration has delivered a message over the socket that was not a
\* notification: nothing is presented, nothing is acknowledged.
C20_Witness ==
    /\ C19_LinksUp
    /\ \E i \in Calls(out, "ws.event") : out[i][2] = "WStype_TEXT"
    /\ Calls(out, "Display.showNotification") = {}
    /\ Calls(out, "ws.sendTXT.ack") = {}
    /\ ~main.hasActiveNotification
    /\ ws.lastActivity = now

----------------------------------------------------------------------------
(* C21: a notification received over the socket with a non-empty id sends   *)
(* exactly one acknowledgment, carrying that id, after the notification has *)
(* been presented; a notification with no id or an empty one sends none; a  *)
(* message of another kind or a malformed one sends none; nothing received  *)
(* over the radio link sends one; and no step sends an acknowledgment       *)
(* except the iteration of loop() in which such a message is delivered.     *)

C21_Acks(o) == [i \in 1..Cardinality(Calls(o, "ws.sendTXT.ack")) |->
                   o[CHOOSE j \in Calls(o, "ws.sendTXT.ack") :
                         Cardinality({k \in Calls(o, "ws.sendTXT.ack") : k <= j}) = i][2]]

C21_AckDue(m) ==
    m.wellFormed /\ m.type = "notification" /\ m.id # Absent /\ m.id # ""

C21_PerMessage ==
    C19_LinksUp =>
        \A m \in ParseNotifications \cup ParseOthers :
            /\ C21_Acks(WsHandleMessage(Fresh, m).out) =
                   IF C21_AckDue(m) THEN <<m.id>> ELSE <<>>
            /\ C21_Acks(BleParseNotification(Fresh, m).out) = <<>>

C21_PerStep ==
    /\ Cardinality(Calls(out', "ws.sendTXT.ack")) <= 1
    /\ \A i \in Calls(out', "ws.sendTXT.ack") :
          /\ TickBegins
          /\ out'[i][2] = "n1"
          /\ \E j \in Calls(out', "ws.event"), k \in Calls(out', "Display.showNotification") :
                j < k /\ k < i /\ out'[j][2] = "WStype_TEXT" /\ out'[k][2] = "6"

C21_AckExactlyForId == [](C21_PerMessage) /\ [][C21_PerStep]_vars

\* An iteration has presented the notification "6" received over the socket
\* and acknowledged its id.
C21_Witness ==
    /\ C21_Acks(out) = <<"n1">>
    /\ \E j \in Calls(out, "ws.event") : out[j][2] = "WStype_TEXT"
    /\ main.hasActiveNotification
    /\ main.currentNotification.table = "6"

----------------------------------------------------------------------------
(* C22: whenever a link reports connection-change(true) to main.cpp, one    *)
(* registration message has been sent on that link earlier in the same      *)
(* handler: on every CONNECTED event of the socket and on every successful  *)
(* connect of the radio link.                                               *)

C22_Registrations(o, call) == {i \in Calls(o, call) : o[i][2] = "register"}

C22_BeforeStatus(o, call) ==
    /\ Cardinality(C22_Registrations(o, call)) = 1
    /\ \A i \in C22_Registrations(o, call), k \in Calls(o, "Display.showIdle") :
          o[k][2] \in {ModeText(TRUE, TRUE), ModeText(call = "ws.sendTXT", call # "ws.sendTXT")}
              => i < k

C22_SocketRegisters ==
    (\E j \in Calls(out', "ws.event") : out'[j][2] = "WStype_CONNECTED")
        => /\ main'.wifiConnected
           /\ C22_BeforeStatus(out', "ws.sendTXT")

C22_RadioRegisters ==
    (main'.bleConnected /\ ~main.bleConnected) => C22_BeforeStatus(out', "ble.writeValue")

C22_RegistersBeforeConnected == [][C22_SocketRegisters /\ C22_RadioRegisters]_vars

\* What the code keeps: the socket part.
C22_SocketPart == [][C22_SocketRegisters]_vars

\* What the radio link does instead: handleConnect runs inside connect(),
\* before connectToServer has found the register characteristic, and
\* handleDisconnect clears it; nothing is ever written to it.
C22_RadioNeverRegisters ==
    [][Calls(out', "ble.writeValue") = {} /\ (ble'.connected /\ ~ble.connected => ~ble.pRegisterChar)]_vars

\* The radio link has connected, with the register characteristic found.
C22_RadioConnected == main.bleConnected /\ ble.connected /\ ble.pRegisterChar

----------------------------------------------------------------------------
(* SpecScan: the radio link is the enabled transport, with or without a     *)
(* configured target address.  Scan results of every kind arrive from the   *)
(* BLE host task; loop() runs between the two halves of handleDeviceFound;  *)
(* connects succeed or fail and the link drops.                             *)

MaxIterScan == 5

MaxScanAttempts == 2

ScanSteps == {1000, 6000}

ScanConfigs == {[ConfigFor("ble") EXCEPT !.ble_server_address = a] : a \in {"", "AA:01"}}

\* The driver prints addresses in lower case.
ScanCands ==
    [addr : {"aa:01", "aa:02"}, service : BOOLEAN, name : {"", BLE_SERVER_NAME, "bitsperbox"}]

ScanIns ==
    LoopInputs({NoEvent}, {"connect_failed", "ok"}, {"count_wraps"}, {FALSE}, {FALSE}, {FALSE})

NextScan ==
    \/ Setup(ScanConfigs)
    \/ LoopStep(ScanSteps, ScanIns, MaxIterScan)
    \/ BleScanResultBegins(ScanCands)
    \/ BleScanResultEnds
    \/ BleScanComplete
    \/ BleDisconnected({"count_wraps"}, MaxScanAttempts)

SpecScan == Init /\ [][NextScan]_vars

----------------------------------------------------------------------------
(* C23: a candidate is accepted only when the radio link is not connected,  *)
(* not Connecting and has no connection request pending, and this is still  *)
(* so when, after its delay, handleDeviceFound stores the device and raises *)
(* the request; a connect is attempted only on a pending request, which it  *)
(* consumes, at most once in an iteration of loop(); no request is pending  *)
(* while the link is connected or while another is being raised; and no     *)
(* attempt is left in flight between iterations.                            *)

C23_Idle(b) == ~b.connected /\ b.state # "BLE_STATE_CONNECTING" /\ ~b.doConnect

C23_Accepts ==
    /\ (drv'.bleHostBusy /\ ~drv.bleHostBusy) => C23_Idle(ble) /\ C23_Idle(ble')
    /\ (ble'.doConnect /\ ~ble.doConnect) =>
          /\ C23_Idle(ble)
          /\ drv.bleHostBusy
          /\ ble'.pServerDevice
          /\ ~ble'.connected /\ ble'.state # "BLE_STATE_CONNECTING"

C23_Attempts ==
    /\ Cardinality(Calls(out', "BLEClient.connect")) <= 1
    /\ Calls(out', "BLEClient.connect") # {} =>
          TickBegins /\ ble.doConnect /\ ~ble'.doConnect /\ ble.pServerDevice

C23_OneAtATime ==
    /\ ble.state # "BLE_STATE_CONNECTING"
    /\ ~(ble.doConnect /\ ble.connected)
    /\ ~(ble.doConnect /\ drv.bleHostBusy)

----------------------------------------------------------------------------
(* C24: a scan result is offered to handleDeviceFound exactly when its      *)
(* address is the configured target address, letter case apart, or it       *)
(* advertises the service, or it advertises the server name; the offer is   *)
(* made on the first of these tests that passes, in this order; a result    *)
(* passing none is not offered; and no result is offered twice.             *)

C24_ByAddress(c) ==
    ble.targetAddress # "" /\ LowerCase(ble.targetAddress) = LowerCase(c.addr)

C24_Expected(c) ==
    CASE C24_ByAddress(c) -> <<"address">>
      [] ~C24_ByAddress(c) /\ c.service -> <<"service">>
      [] ~C24_ByAddress(c) /\ ~c.service /\ c.name = "BitsperBox" -> <<"name">>
      [] OTHER -> <<>>

C24_Offered(o) ==
    [i \in 1..Cardinality(Calls(o, "BleClient.handleDeviceFound")) |->
        o[CHOOSE j \in Calls(o, "BleClient.handleDeviceFound") :
              Cardinality({k \in Calls(o, "BleClient.handleDeviceFound") : k <= j}) = i][2]]

C24_PerCandidate ==
    (Running /\ drv.bleScanning) =>
        \A c \in ScanCands :
            /\ C24_Offered(BleOnResult(Fresh, c).out) = C24_Expected(c)
            /\ C24_Offered(BleOnResultBegin(Fresh, c).out) = C24_Expected(c)

C24_PerStep ==
    /\ Cardinality(Calls(out', "BleClient.handleDeviceFound")) <= 1
    /\ Calls(out', "BleClient.handleDeviceFound") # {} =>
          drv.bleScanning /\ ~TickBegins /\ out'[1][1] = "BleClient.handleDeviceFound"
    /\ (drv'.bleHostBusy /\ ~drv.bleHostBusy) =>
          Calls(out', "BleClient.handleDeviceFound") # {}
    /\ \A i \in Calls(out', "BleClient.handleDeviceFound") :
          out'[i][2] = "address" => ble.targetAddress = "AA:01"

C24_OfferedIffMatches == [](C24_PerCandidate) /\ [][C24_PerStep]_vars

\* A scan result has been offered for its address, which differs from the
\* configured one in letter case, and accepted.
C24_Witness ==
    /\ Len(out) >= 1
    /\ out[1] = <<"BleClient.handleDeviceFound", "address">>
    /\ ble.targetAddress = "AA:01"
    /\ drv.bleHostBusy

----------------------------------------------------------------------------
(* SpecScanFair: SpecScan with loop() running for ever and a driver that    *)
(* ends every scan it started and lets handleDeviceFound finish its delay.  *)
(* The Arduino core calls loop() again whenever it returns; the scan is     *)
(* started for 5 s (ble_client.cpp:154).  Iterations take 2 s or 6 s, so    *)
(* that at most ScanTicks of them go by between one scan and the next.      *)

MaxIterScanFair == 6

ScanFairSteps == {2000, 6000}

ScanTicks == (BLE_SCAN_INTERVAL \div 2000) + 2

NextScanFair ==
    \/ Setup(ScanConfigs)
    \/ LoopStep(ScanFairSteps, ScanIns, MaxIterScanFair)
    \/ BleScanResultBegins(ScanCands)
    \/ BleScanResultEnds
    \/ BleScanComplete
    \/ BleDisconnected({"count_wraps"}, MaxScanAttempts)

\* Weak fairness of LoopStep(ScanFairSteps, ScanIns, MaxIterScanFair), written
\* out: the action is enabled exactly when pc = "loop" and iter is below its
\* bound, and its steps are the steps that add one to iter.
ScanLoopFair ==
    \/ []<>(~(pc = "loop" /\ iter < MaxIterScanFair))
    \/ []<><<iter' = iter + 1>>_vars

SpecScanFair ==
    /\ Init
    /\ [][NextScanFair]_vars
    /\ ScanLoopFair
    /\ WF_vars(BleScanResultEnds)
    /\ WF_vars(BleScanComplete)

----------------------------------------------------------------------------
(* C25: with the radio link enabled and not connected, a scan in progress   *)
(* eventually ends and leaves the Scanning state; from every state that is  *)
(* not Scanning, a later iteration of loop() starts a scan or attempts a    *)
(* connect; an iteration that begins with a scan requested starts it; and   *)
(* no state between iterations is Connecting.  (Iterations are bounded in   *)
(* the model: the second part is stated for the states that have ScanTicks  *)
(* iterations left.)                                                        *)

C25_Enabled == pc = "loop" /\ main.currentState = "STATE_CONNECTED" /\ main.useBLE

C25_Attempt(o) == Calls(o, "BLEScan.start") # {} \/ Calls(o, "BLEClient.connect") # {}

C25_ScanEnds ==
    (C25_Enabled /\ ~ble.connected /\ ble.state = "BLE_STATE_SCANNING")
        ~> (ble.state # "BLE_STATE_SCANNING")

C25_ScanFollows ==
    \A n \in 0..(MaxIterScanFair - ScanTicks) :
        (C25_Enabled /\ ~ble.connected /\ ble.state # "BLE_STATE_SCANNING" /\ iter = n)
            ~> (iter > n /\ C25_Attempt(out))

C25_RequestServed ==
    (TickBegins /\ C25_Enabled /\ ~ble.connected /\ ble.doScan /\ ~ble.doConnect)
        => Calls(out', "BLEScan.start") # {}

C25_ScanRestarts ==
    /\ C25_ScanEnds
    /\ C25_ScanFollows
    /\ [][C25_RequestServed]_vars
    /\ [](ble.state # "BLE_STATE_CONNECTING")

\* A scan has ended with nothing found and, no retry having been scheduled,
\* loop() has started the next one.
C25_Witness ==
    /\ C25_Enabled
    /\ Calls(out, "BLEScan.start") # {}
    /\ ble.reconnectAttempts = 0 /\ ble.lastReconnect = 0
    /\ ble.lastScanTime > 0
    /\ iter >= 3

----------------------------------------------------------------------------
(* SpecForce: both transports enabled; between iterations of loop() the     *)
(* main task calls forceReconnect on either link, in whatever state the     *)
(* link is; the BLE driver reports the end of a link it was told to close   *)
(* from its own task, later.                                                *)

MaxIterForce == 4

MaxForceAttempts == 2

ForceSteps == {6000}

ForceIns ==
    LoopInputs({NoEvent, PlainEvent("WStype_CONNECTED")}, {"connect_failed", "ok"},
               {"count_wraps"}, {FALSE}, {FALSE}, {FALSE})

BleForceReconnectCall ==
    /\ pc = "loop"
    /\ main.currentState = "STATE_CONNECTED" /\ main.useBLE
    /\ Commit(BleForceReconnect(Fresh))
    /\ UNCHANGED iter

WsForceReconnectCall ==
    /\ pc = "loop"
    /\ main.currentState = "STATE_CONNECTED" /\ main.useWiFi
    /\ Commit(WsForceReconnect(Fresh))
    /\ UNCHANGED iter

NextForce ==
    \/ Setup({ConfigFor("both")})
    \/ WifiEvent({"STA_GOT_IP"}, 1)
    \/ ConnectReturns(ForceIns)
    \/ LoopStep(ForceSteps, ForceIns, MaxIterForce)
    \/ BleScanResult(PresenterCands)
    \/ BleDisconnected({"count_wraps"}, MaxForceAttempts)
    \/ BleForceReconnectCall
    \/ WsForceReconnectCall

SpecForce == Init /\ [][NextForce]_vars

----------------------------------------------------------------------------
(* C26: a call of forceReconnect on either link, in any state of the link,  *)
(* leaves it with no connection request pending, not connected, not         *)
(* Connecting and an attempt count of zero; and when the driver then        *)
(* reports the end of the closed connection, before the new scan or connect *)
(* has started, all of this is still so.                                    *)

C26_BleTornDown(b) ==
    /\ ~b.doConnect
    /\ ~b.connected
    /\ b.state # "BLE_STATE_CONNECTING" /\ b.state # "BLE_STATE_CONNECTED"
    /\ b.reconnectAttempts = 0

C26_WsTornDown(w) == ~w.connected /\ w.reconnectAttempts = 0

C26_BleForced == BleForceReconnectCall => C26_BleTornDown(ble')

C26_WsForced == WsForceReconnectCall => C26_WsTornDown(ws') /\ ~drv'.wsUp

\* The callback of the closed connection: the client has dropped the link,
\* the driver still holds it, and the scan forceReconnect asked for has not
\* started.
C26_LateCallback ==
    /\ BleDisconnected({"count_wraps"}, MaxForceAttempts)
    /\ ~ble.connected /\ ble.doScan /\ ble.reconnectAttempts = 0

C26_BleAfterCallback == C26_LateCallback => C26_BleTornDown(ble')

C26_ForcedReconnectSafe == [][C26_BleForced /\ C26_WsForced /\ C26_BleAfterCallback]_vars

\* What the code keeps: the socket link (its library reports the close
\* inside disconnect(), before forceReconnect resets the counters), and for
\* the radio link the connected flag and the state.
C26_Kept ==
    [][/\ C26_WsForced
       /\ BleForceReconnectCall =>
             /\ ~ble'.connected /\ ble'.state = "BLE_STATE_DISCONNECTED"
             /\ ble'.reconnectAttempts = 0 /\ ble'.doScan
             /\ ble'.doConnect = ble.doConnect
       /\ C26_LateCallback =>
             /\ ~ble'.connected /\ ble'.state = "BLE_STATE_DISCONNECTED"
             /\ ble'.reconnectAttempts = 1]_vars

\* forceReconnect has closed a radio link that was up, and the driver has
\* not reported it yet.
C26_ForcedWhileUp ==
    /\ Calls(out, "BLEClient.disconnect") # {}
    /\ drv.bleLinkUp /\ ~ble.connected /\ ble.doScan /\ ble.reconnectAttempts = 0

\* forceReconnect has been called with a connection request pending.
C26_ForcedWhilePending ==
    /\ ble.doConnect /\ ble.doScan /\ ble.state = "BLE_STATE_DISCONNECTED"

----------------------------------------------------------------------------
(* SpecFail: every failure the firmware handles, and the two ways to a      *)
(* restart.  One transport enabled, or no configuration (configuration     *)
(* mode with its portal).  The socket connects, drops and delivers          *)
(* malformed payloads, or stays silent past the watchdog; WiFi              *)
(* drops until the ceiling of retries is passed; BLE connects fail at the   *)
(* connect or at service discovery, links drop, malformed payloads arrive;  *)
(* the BOOT button is pressed and held; the portal serves a save.           *)

MaxIterFail == 2

\* One failure more than the ceiling of WiFi retries.
FailWifiAttempts == WIFI_MAX_RECONNECT_ATTEMPTS + 1

MaxFailBleAttempts == 2

FailSteps == {61000}

FailEvents ==
    {NoEvent, PlainEvent("WStype_CONNECTED"), PlainEvent("WStype_DISCONNECTED"),
     TextEvent(MalformedMsg)}

\* The inputs that matter to the socket, to the radio link and to the portal.
FailIns ==
    LoopInputs(FailEvents, {"ok"}, {"count_wraps"}, {FALSE, TRUE}, {FALSE}, {FALSE})
    \cup LoopInputs({NoEvent}, {"connect_failed", "no_service", "ok"}, {"count_wraps"},
                    {FALSE, TRUE}, {FALSE}, {FALSE})
    \cup LoopInputs({NoEvent}, {"ok"}, {"count_wraps"}, {FALSE, TRUE}, {FALSE}, {FALSE, TRUE})

NextFail ==
    \/ Setup({NoConfig, ConfigFor("wifi"), ConfigFor("ble")})
    \/ WifiEvent({"STA_GOT_IP", "STA_DISCONNECTED"}, FailWifiAttempts)
    \/ ConnectReturns(FailIns)
    \/ LoopStep(FailSteps, FailIns, MaxIterFail)
    \/ BleScanResult(PresenterCands)
    \/ BleDisconnected({"count_wraps"}, MaxFailBleAttempts)
    \/ BleNotify({MalformedMsg})
    \/ BootButtonPress

SpecFail == Init /\ [][NextFail]_vars

----------------------------------------------------------------------------
(* C27: the device restarts only in an iteration of loop() that either      *)
(* finds the scheduled restart due or finds the BOOT button held for more   *)
(* than LONG_PRESS_TIME (it then clears the configuration first); a restart *)
(* is scheduled only by a save served in configuration mode.  A failure     *)
(* never restarts the device nor moves main.cpp out of its state, and the   *)
(* loop goes on: a socket drop or watchdog timeout leaves the socket not    *)
(* connected; a WiFi drop or connect timeout leaves WiFi not connected, in  *)
(* AP mode once the ceiling of retries is passed; a failed connect or a     *)
(* drop of the radio link leaves its state neither Connected nor            *)
(* Connecting (Disconnected, or Scanning again), and its connected flag     *)
(* false once the driver has reported the end of the link; a malformed      *)
(* payload is dropped, the link it came over staying as it was.             *)

C27_RestartOnlyByRequest ==
    (pc' = "restarted" /\ pc # "restarted") =>
        /\ TickBegins
        /\ Calls(out', "ESP.restart") # {}
        /\ \/ /\ ScheduledRestartOnly(out')
              /\ main.shouldRestart /\ now' > main.restartTime
           \/ /\ Calls(out', "Storage.clearConfig") # {}
              /\ main.btnBootPressed
              /\ Elapsed(now', main.btnBootPressTime) > LONG_PRESS_TIME

C27_ScheduledOnlyBySave ==
    (main'.shouldRestart # main.shouldRestart) =>
        /\ main'.shouldRestart
        /\ main.currentState = "STATE_AP_MODE"
        /\ Calls(out', "Storage.saveConfig") # {}

C27_WsFailure(o) ==
    \/ \E i \in Calls(o, "ws.event") : o[i][2] = "WStype_DISCONNECTED"
    \/ Calls(o, "ws.watchdog") # {}

C27_WifiFailure ==
    \/ wifi'.reconnectAttempts > wifi.reconnectAttempts
    \/ wifi'.state = "WIFI_STATE_ERROR" /\ wifi.state # "WIFI_STATE_ERROR"

C27_BleFailure == ble'.reconnectAttempts > ble.reconnectAttempts

C27_GoesOn ==
    /\ pc' \in {"loop", "loop_connect", "setup_connect"}
    /\ pc \in {"loop", "loop_connect"} => main'.currentState = main.currentState
    /\ Calls(out', "ESP.restart") = {}

C27_FailureHandled ==
    /\ C27_WsFailure(out') => C27_GoesOn /\ ~ws'.connected /\ ~main'.wifiConnected
    /\ C27_WifiFailure =>
          /\ C27_GoesOn
          /\ wifi'.state # "WIFI_STATE_CONNECTED"
          /\ (wifi'.reconnectAttempts > wifi.reconnectAttempts
                /\ wifi'.reconnectAttempts > WIFI_MAX_RECONNECT_ATTEMPTS) =>
                wifi'.state = "WIFI_STATE_AP_MODE"
    /\ C27_BleFailure =>
          /\ C27_GoesOn
          /\ ble'.state \notin {"BLE_STATE_CONNECTED", "BLE_STATE_CONNECTING"}
          /\ ~drv'.bleLinkUp => ~ble'.connected /\ ~main'.bleConnected

C27_ParseErrorDropped ==
    Running =>
        LET overSocket == WsHandleMessage(Fresh, MalformedMsg)
            overRadio == BleParseNotification(Fresh, MalformedMsg)
        IN  /\ overSocket.pc = pc /\ overSocket.main = main /\ overSocket.out = <<>>
            /\ overSocket.ws.connected = ws.connected
            /\ overRadio.pc = pc /\ overRadio.main = main /\ overRadio.out = <<>>
            /\ overRadio.ble = ble

C27_NoFailureRestarts ==
    /\ [][C27_RestartOnlyByRequest /\ C27_ScheduledOnlyBySave /\ C27_FailureHandled]_vars
    /\ [](C27_ParseErrorDropped)

\* WiFi has failed once more than the ceiling allows: the manager is in AP
\* mode, main.cpp is still in its Connected state and loop() goes on.
C27_Witness ==
    /\ wifi.reconnectAttempts > WIFI_MAX_RECONNECT_ATTEMPTS
    /\ wifi.state = "WIFI_STATE_AP_MODE"
    /\ main.currentState = "STATE_CONNECTED"
    /\ pc = "loop" /\ iter >= 1

\* The other cases: the watchdog has fired; a connect of the radio link has
\* failed at service discovery; the device has restarted on a long press.
C27_WatchdogFired == Calls(out, "ws.watchdog") # {} /\ pc = "loop" /\ ~ws.connected

C27_DiscoveryFailed ==
    /\ ble.connected /\ ble.state = "BLE_STATE_DISCONNECTED" /\ ble.reconnectAttempts = 1
    /\ pc = "loop"

C27_FactoryReset == pc = "restarted" /\ Calls(out, "Storage.clearConfig") # {}

----------------------------------------------------------------------------
(* C28, what the code keeps: a notification whose payload the receiving     *)
(* client holds whole is presented over either transport whatever the       *)
(* length of its fields, each field being the longest prefix of the         *)
(* received value that fits the field (one character less than its size);   *)
(* over the socket every payload is held whole; over the radio link a       *)
(* payload longer than the buffer can hold is dropped.                      *)

C28_IsPrefix(a, b) == a = b \/ (a \in LongTexts /\ b \in LongTexts /\ StrLen(a) <= StrLen(b))

C28_Cut(got, given, size) ==
    /\ C28_IsPrefix(got, given)
    /\ StrLen(got) <= size - 1
    /\ StrLen(given) <= size - 1 => got = given
    /\ StrLen(given) > size - 1 => StrLen(got) = size - 1

C28_Truncated(n, m) ==
    /\ C28_Cut(n.table, m.table, 16)
    /\ C28_Cut(n.alert, m.alert, 32)
    /\ C28_Cut(n.message, m.message, 256)
    /\ C28_Cut(n.priority, IF m.priority = Absent THEN "medium" ELSE m.priority, 16)

C28_Inputs == ParseNotifications \cup LongNotifications

C28_Produced(n, m) == n # EmptyNotification /\ C28_Truncated(n, m)

\* C28 as stated: every notification message, whatever the length of its
\* fields and of its payload, produces a notification over either
\* transport, each field a prefix of the received value that fits.
C28_TruncatedNotRejected ==
    C19_LinksUp =>
        \A m \in C28_Inputs :
            /\ C28_Produced(C19_OverSocket(m), m)
            /\ C28_Produced(C19_OverRadio(m), m)

C28_HeldWhole(m) == m.len <= BLE_JSON_BUFFER - 1

C28_TruncatedWhenHeld ==
    C19_LinksUp =>
        \A m \in C28_Inputs :
            /\ C28_Produced(C19_OverSocket(m), m)
            /\ C28_HeldWhole(m) => C28_Produced(C19_OverRadio(m), m)
            /\ ~C28_HeldWhole(m) => C19_OverRadio(m) = EmptyNotification

\* A notification with every field one character too long has been
\* presented, cut.
C28_CutPresented ==
    /\ main.hasActiveNotification
    /\ main.currentNotification.table = "x*15"
    /\ main.currentNotification.alert = "x*31"
    /\ main.currentNotification.message = "x*255"
    /\ main.currentNotification.priority = "x*15"
    /\ Calls(out, "Display.showNotification") # {}

----------------------------------------------------------------------------
(* C29: the connection mode on the display is a function of the pair of     *)
(* connected flags (socket link, radio link): "WiFi+BLE" when both are set, *)
(* "WiFi" when only the socket's is, "BLE" when only the radio's is,        *)
(* "Desconectado" when neither is; and the idle view shows "connected"      *)
(* exactly when at least one of the two flags is set.  Checked three ways:  *)
(* updateConnectionStatus applied to every pair, every idle view in every   *)
(* reachable state, and the last Display.showIdle call of every step.       *)

C29_Mode(w, b) ==
    CASE w /\ b -> "WiFi+BLE"
      [] w /\ ~b -> "WiFi"
      [] ~w /\ b -> "BLE"
      [] ~w /\ ~b -> "Desconectado"

C29_Drawn(w, b) ==
    updateConnectionStatus([Fresh EXCEPT !.main.wifiConnected = w,
                                         !.main.bleConnected = b,
                                         !.main.hasActiveNotification = FALSE])

C29_PerPair ==
    \A w \in BOOLEAN, b \in BOOLEAN :
        /\ C29_Drawn(w, b).disp.view = "idle"
        /\ C29_Drawn(w, b).disp.mode = C29_Mode(w, b)
        /\ C29_Drawn(w, b).disp.connected = (w \/ b)
        /\ C29_Drawn(w, b).out = <<<<"Display.showIdle", C29_Mode(w, b)>>>>

C29_IdleView ==
    disp.view = "idle" =>
        /\ disp.mode = C29_Mode(main.wifiConnected, main.bleConnected)
        /\ disp.connected = (main.wifiConnected \/ main.bleConnected)

C29_LastDrawn ==
    LET idle == Calls(out', "Display.showIdle") IN
    idle # {} =>
        out'[CHOOSE i \in idle : \A j \in idle : j <= i][2]
            = C29_Mode(main'.wifiConnected, main'.bleConnected)

C29_ModeFollowsPair == [](C29_PerPair /\ C29_IdleView) /\ [][C29_LastDrawn]_vars

\* Both links are up and the idle view says so.
C29_Witness ==
    /\ main.wifiConnected /\ main.bleConnected
    /\ disp.view = "idle" /\ disp.mode = "WiFi+BLE" /\ disp.connected
    /\ Calls(out, "Display.showIdle") # {}

\* Only the radio link is up, after the socket's was lost.
C29_RadioOnly ==
    /\ ~main.wifiConnected /\ main.bleConnected
    /\ disp.view = "idle" /\ disp.mode = "BLE" /\ disp.connected
    /\ Calls(out, "Display.showIdle") # {}

----------------------------------------------------------------------------
(* C30: the socket link sends its heartbeat only while it is connected,     *)
(* never while disconnected; the first heartbeat of a connection is sent    *)
(* more than 20 s after the CONNECTED event, and two consecutive heartbeats *)
(* of one connection are more than 20 s apart.  _lastHeartbeat is shown to  *)
(* be the time of the last CONNECTED event or heartbeat, whichever is       *)
(* later, so the distance is measured on it.                                *)

C30_Beats(o) == {i \in Calls(o, "ws.sendTXT") : o[i][2] = "heartbeat"}

C30_Events(o, type) == {i \in Calls(o, "ws.event") : o[i][2] = type}

\* The heartbeat of loop() at the elapsed times around the interval, with
\* the link connected and not.
C30_Poll(c, d) ==
    WsHeartbeat([Fresh EXCEPT !.ws.connected = c, !.now = ws.lastHeartbeat + d])

C30_AtBoundary ==
    \A c \in BOOLEAN :
        \A d \in {0, WS_HEARTBEAT_INTERVAL - 1, WS_HEARTBEAT_INTERVAL,
                  WS_HEARTBEAT_INTERVAL + 1, 2 * WS_HEARTBEAT_INTERVAL} :
            (C30_Beats(C30_Poll(c, d).out) # {}) <=> (c /\ d > WS_HEARTBEAT_INTERVAL)

\* A heartbeat is sent by an iteration of loop() only (the button
\* interrupts leave the record of the last step's calls as it was).
C30_Sends == TickEnds /\ C30_Beats(out') # {}

C30_SentByLoop ==
    (out' # out /\ C30_Beats(out') # {}) => TickEnds

\* An iteration that sends a heartbeat found the link connected, delivers
\* no CONNECTED event, no DISCONNECTED event before the heartbeat, and
\* sends one heartbeat only.
C30_OnlyConnected ==
    C30_Sends =>
        /\ ws.connected
        /\ Cardinality(C30_Beats(out')) = 1
        /\ C30_Events(out', "WStype_CONNECTED") = {}
        /\ \A i \in C30_Beats(out'), j \in C30_Events(out', "WStype_DISCONNECTED") : i < j

\* _lastHeartbeat changes only at a CONNECTED event or a heartbeat, to the
\* time of that event or heartbeat.
C30_Recorded ==
    ws.lastHeartbeat' # ws.lastHeartbeat =>
        /\ TickEnds
        /\ C30_Beats(out') # {} \/ C30_Events(out', "WStype_CONNECTED") # {}
        /\ now <= ws.lastHeartbeat' /\ ws.lastHeartbeat' <= now'

C30_ConnectRecorded ==
    (TickEnds /\ C30_Events(out', "WStype_CONNECTED") # {}) =>
        /\ now <= ws.lastHeartbeat' /\ ws.lastHeartbeat' <= now'
        /\ ws.lastHeartbeat' = ws.lastActivity'

C30_Apart ==
    C30_Sends => ws.lastHeartbeat' - ws.lastHeartbeat > WS_HEARTBEAT_INTERVAL

\* While the link is disconnected and no CONNECTED event arrives, nothing
\* is sent.
C30_SilentWhileDown ==
    (TickEnds /\ ~ws.connected /\ C30_Events(out', "WStype_CONNECTED") = {})
        => C30_Beats(out') = {}

C30_HeartbeatWhileConnected ==
    /\ [](C30_AtBoundary)
    /\ [][/\ C30_SentByLoop
          /\ C30_OnlyConnected
          /\ C30_Recorded
          /\ C30_ConnectRecorded
          /\ C30_Apart
          /\ C30_SilentWhileDown]_vars

\* A heartbeat has been sent on a connected link.
C30_Witness ==
    /\ ws.connected
    /\ C30_Beats(out) # {}
    /\ ws.lastHeartbeat > WS_HEARTBEAT_INTERVAL

\* A second heartbeat of the same connection: the one before it was sent
\* in the iteration before.
C30_SecondBeat ==
    /\ ws.connected
    /\ C30_Beats(out) # {}
    /\ ws.lastHeartbeat > 2 * WS_HEARTBEAT_INTERVAL
    /\ ws.lastActivity < ws.lastHeartbeat - 2 * WS_HEARTBEAT_INTERVAL

----------------------------------------------------------------------------
(* storage.cpp and web_portal.cpp: what the portal's form leaves in the     *)
(* Preferences store and what loadConfig reads back.  The store is the      *)
(* record of the keys saveConfig writes, of the fields the model keeps.     *)

\* The store after clearConfig (or never written).
NoPrefs == [configured |-> FALSE, wifi_ssid |-> Absent, mode |-> Absent]

\* Preferences.getString(key, default).
PrefsGetString(v, default) == IF v = Absent THEN default ELSE v

CONNECTION_MODE_SIZE == 8
BLE_ADDRESS_SIZE == 20

\* handleSave, lines 68-116: the DeviceConfig built from the form.
PortalFormConfig(form) ==
    [configured |-> TRUE,
     mode |-> IF form.mode = Absent THEN "" ELSE form.mode,
     connection_mode |-> IF form.conn_mode = Absent THEN "both"
                         ELSE Strncpy(form.conn_mode, CONNECTION_MODE_SIZE - 1),
     wifi_ssid |-> IF form.ssid = Absent THEN "" ELSE form.ssid,
     ble_server_address |-> IF form.ble_addr = Absent THEN ""
                            ELSE Strncpy(form.ble_addr, BLE_ADDRESS_SIZE - 1)]

\* saveConfig, lines 64-89.
StorageSaveConfig(prefs, c) ==
    [prefs EXCEPT !.configured = TRUE, !.wifi_ssid = c.wifi_ssid, !.mode = c.mode]

\* loadConfig, lines 20-62: the struct is zeroed, then the stored keys are
\* copied in; connection_mode and ble_server_address stay zeroed unless the
\* store holds them, which no saveConfig makes it do.
StorageLoadConfig(prefs) ==
    IF ~prefs.configured THEN NoConfig
    ELSE [configured |-> TRUE,
          mode |-> PrefsGetString(prefs.mode, "bitsperbox"),
          connection_mode |-> "",
          wifi_ssid |-> PrefsGetString(prefs.wifi_ssid, ""),
          ble_server_address |-> ""]

----------------------------------------------------------------------------
(* SpecStore: the device boots with what the store holds: nothing, or what  *)
(* a form of the portal left there; it then runs its loop, in configuration *)
(* mode with forms being saved, or in Connected mode.                       *)

MaxIterStore == 5

StoreForms ==
    [mode : {"bitsperbox"}, ssid : {"net"}, conn_mode : {Absent, "wifi", "ble", "both"},
     ble_addr : {Absent, "", "AA:01"}]

StoredConfigs ==
    {StorageLoadConfig(NoPrefs)} \cup
    {StorageLoadConfig(StorageSaveConfig(NoPrefs, PortalFormConfig(f))) : f \in StoreForms}

StoreSteps == {1000, 6000}

StoreIns == LoopInputs({NoEvent}, {"ok"}, {"count_wraps"}, {FALSE, TRUE}, {FALSE}, {FALSE, TRUE})

NextStore ==
    \/ Setup(StoredConfigs)
    \/ LoopStep(StoreSteps, StoreIns, MaxIterStore)
    \/ BootButtonPress
    \/ UserButtonPress

SpecStore == Init /\ [][NextStore]_vars

----------------------------------------------------------------------------
(* C31: after startup with a saved configuration whose connection mode is   *)
(* "wifi", "ble" or "both", useWiFi and useBLE are those of the saved mode  *)
(* and the radio target address is the saved one; a configured device in    *)
(* STATE_CONNECTED has at least one enabled transport; loadConfig after     *)
(* saveConfig(c) returns c's connection mode and radio target address.      *)

C31_Saved == {PortalFormConfig(f) : f \in StoreForms}

C31_Started == pc = "loop" /\ main.deviceConfig.configured

\* loadConfig gives back the connection mode and the radio target address
\* of every saved configuration the loaded one can come from.
C31_RoundTrip ==
    C31_Started =>
        \A c \in C31_Saved :
            StorageLoadConfig(StorageSaveConfig(NoPrefs, c)) = main.deviceConfig =>
                /\ main.deviceConfig.connection_mode = c.connection_mode
                /\ main.deviceConfig.ble_server_address = c.ble_server_address

\* Every saved configuration the loaded one can come from selects the
\* transports that are enabled.
C31_SelectionKept ==
    C31_Started =>
        \A c \in C31_Saved :
            StorageLoadConfig(StorageSaveConfig(NoPrefs, c)) = main.deviceConfig =>
                /\ main.useWiFi = UsesWiFi(c.connection_mode)
                /\ main.useBLE = UsesBLE(c.connection_mode)
                /\ main.useBLE => ble.targetAddress = c.ble_server_address

C31_SomeTransport ==
    (C31_Started /\ main.currentState = "STATE_CONNECTED") => (main.useWiFi \/ main.useBLE)

C31_SavedSelectionApplies == C31_RoundTrip /\ C31_SelectionKept /\ C31_SomeTransport

\* What the firmware does: whatever was saved, the device comes up in
\* STATE_CONNECTED with neither transport enabled and polls neither client.
C31_ComesUpWithoutTransport ==
    C31_Started =>
        /\ main.currentState = "STATE_CONNECTED"
        /\ ~main.useWiFi /\ ~main.useBLE
        /\ main.deviceConfig.connection_mode = ""
        /\ ~drv.wsBegun /\ ~drv.bleBegun

C31_Witness ==
    /\ C31_Started
    /\ iter > 0
    /\ main.currentState = "STATE_CONNECTED"
    /\ ~main.useWiFi /\ ~main.useBLE

----------------------------------------------------------------------------
(* C32: whenever the WiFi manager is in AP mode because the network retries *)
(* were exhausted, the device state is STATE_AP_MODE, the portal has been   *)
(* started (and with it the config-saved callback installed, and the loop   *)
(* serves it); the WiFi manager is never in AP mode while the device state  *)
(* is STATE_CONNECTED.                                                      *)

C32_Escalated ==
    wifi.state = "WIFI_STATE_AP_MODE" /\ wifi.reconnectAttempts > WIFI_MAX_RECONNECT_ATTEMPTS

C32_EscalationIsConfigMode ==
    wifi.state = "WIFI_STATE_AP_MODE" =>
        /\ main.currentState = "STATE_AP_MODE"
        /\ main.currentState # "STATE_CONNECTED"
        /\ drv.portalRunning

\* What the firmware does: the step that escalates changes the WiFi manager
\* alone.
C32_EscalationLeavesDevice ==
    [][(wifi'.state = "WIFI_STATE_AP_MODE" /\ wifi.state # "WIFI_STATE_AP_MODE"
        /\ wifi'.reconnectAttempts > wifi.reconnectAttempts) =>
          /\ wifi'.reconnectAttempts > WIFI_MAX_RECONNECT_ATTEMPTS
          /\ main'.currentState = main.currentState
          /\ drv'.portalRunning = drv.portalRunning
          /\ main'.shouldRestart = main.shouldRestart]_vars

\* After an escalation in STATE_CONNECTED the loop goes on polling the
\* transports and never the portal.
C32_PortalNeverServed ==
    [][(C32_Escalated /\ main.currentState = "STATE_CONNECTED" /\ TickBegins) =>
          /\ Calls(out', "Storage.saveConfig") = {}
          /\ Calls(out', "Portal.begin") = {}
          /\ ~drv'.portalRunning
          /\ main'.currentState = "STATE_CONNECTED"]_vars

C32_EscalatedInLoop ==
    /\ C32_Escalated /\ main.currentState = "STATE_CONNECTED"
    /\ pc = "loop" /\ Calls(out, "WifiMgr.loop") # {}

----------------------------------------------------------------------------
(* C33: at the end of every iteration of loop() the presenter's flags agree *)
(* with the links: wifiConnected is the socket client's _connected and      *)
(* bleConnected is the BLE client's _connected, after any sequence of       *)
(* connects, disconnects, watchdog disconnects, disconnect() and            *)
(* forceReconnect() calls.                                                  *)

C33_WsAgrees == main.wifiConnected = ws.connected

C33_BleAgrees == main.bleConnected = ble.connected

C33_FlagsAgree ==
    [][TickEnds => (main'.wifiConnected = ws'.connected
                    /\ main'.bleConnected = ble'.connected)]_vars

\* The socket's half: the library reports the close it is asked for before
\* disconnect() returns, so the flag falls with _connected.
C33_SocketFlagAgrees == [][TickEnds => main'.wifiConnected = ws'.connected]_vars

\* The radio's half as long as nothing calls disconnect() or
\* forceReconnect(): the flag changes in handleConnect and handleDisconnect
\* only, each of which calls the presenter.
C33_RadioFlagAgrees == [][TickEnds => main'.bleConnected = ble'.connected]_vars

\* An iteration ends with the radio link torn down by forceReconnect() and
\* the presenter still showing it connected.
C33_StaleRadioFlag ==
    /\ pc = "loop" /\ iter > 0
    /\ Calls(out, "BleClient.loop") # {}
    /\ main.bleConnected /\ ~ble.connected

----------------------------------------------------------------------------
(* C34: in every reachable state of the BLE client _connected is true if    *)
(* and only if _state is BLE_STATE_CONNECTED; in particular a connect whose *)
(* onConnect callback fired and whose service or characteristic discovery   *)
(* then failed does not leave _connected true with _state Disconnected.     *)

C34_FlagIsState == ble.connected <=> (ble.state = "BLE_STATE_CONNECTED")

\* One half holds: the state is Connected only with the flag set.
C34_StateImpliesFlag == (ble.state = "BLE_STATE_CONNECTED") => ble.connected

\* What the firmware does when discovery fails after onConnect: the
\* iteration ends with the flag set, the state Disconnected, a retry
\* scheduled and the presenter told the link is up.
C34_DiscoveryFailureKeepsFlag ==
    [][(TickEnds /\ Calls(out', "Display.show") # {}
        /\ (\E i \in Calls(out', "BLEClient.disconnect") : TRUE)
        /\ ~ble.connected /\ ble'.connected) =>
          /\ ble'.state # "BLE_STATE_CONNECTED"
          /\ main'.bleConnected]_vars

C34_ConnectedYetDisconnected ==
    /\ pc = "loop"
    /\ ble.connected /\ ble.state = "BLE_STATE_DISCONNECTED"
    /\ main.bleConnected
    /\ Calls(out, "BLEClient.disconnect") # {}

----------------------------------------------------------------------------
(* C35: the BLE client never starts a scan while a scan is in progress      *)
(* (state Scanning) or while a connection attempt is pending or in flight   *)
(* (_doConnect raised or state Connecting), whichever trigger raised the    *)
(* scan request: startScan, the auto-scan or the backoff timer.             *)

C35_ScanStarted(o) == Calls(o, "BLEScan.start") # {}

\* The iteration handled no connection request, so the scan block found
\* the client as the iteration did.
C35_NoConnectHandled(o) ==
    \A i \in Calls(o, "Display.show") : o[i][2] # "bleConnecting"

C35_ScanOnlyWhenFree ==
    [][(TickEnds /\ C35_ScanStarted(out') /\ C35_NoConnectHandled(out')) =>
          /\ ble.state # "BLE_STATE_SCANNING"
          /\ ble.state # "BLE_STATE_CONNECTING"
          /\ ~ble.doConnect
          /\ ~drv.bleScanning]_vars

\* The two parts that hold: a scan never starts with the connection request
\* raised or in state Connecting, and the auto-scan never asks for a scan
\* while one is in progress.
C35_NotWhileConnecting ==
    [][(TickEnds /\ C35_ScanStarted(out') /\ C35_NoConnectHandled(out')) =>
          /\ ble.state # "BLE_STATE_CONNECTING"
          /\ ~ble.doConnect]_vars

C35_AutoScanWaits ==
    \A st \in {"BLE_STATE_SCANNING", "BLE_STATE_CONNECTING"} :
        BleLoopAutoScan([Fresh EXCEPT !.ble.state = st, !.ble.doScan = FALSE,
                                      !.now = ble.lastScanTime + BLE_SCAN_INTERVAL + 1]).ble.doScan
            = FALSE

\* The backoff timer asks for a scan whatever the state.
C35_BackoffTimerAsksAnyway ==
    \A st \in {"BLE_STATE_SCANNING", "BLE_STATE_CONNECTING"} :
        BleLoopBackoff([Fresh EXCEPT !.ble.state = st, !.ble.connected = FALSE,
                                     !.ble.doScan = FALSE,
                                     !.ble.lastReconnect = now + 1,
                                     !.now = now + 1]).ble.doScan

\* A scan has been started over a scan in progress.
C35_ScanOverScan ==
    /\ pc = "loop"
    /\ C35_ScanStarted(out) /\ C35_NoConnectHandled(out)
    /\ ble.state = "BLE_STATE_SCANNING"
    /\ ble.reconnectAttempts > 0
    /\ ble.lastReconnect = 0

----------------------------------------------------------------------------
(* SpecBackoff: the radio link is the enabled transport; every scan finds   *)
(* the peer or ends without it, the peer refuses every connection, and      *)
(* loop() runs every 2 or 6 seconds.                                        *)

MaxIterBackoff == 14

BackoffSteps == {2000, 6000}

BackoffIns ==
    LoopInputs({NoEvent}, {"connect_failed"}, {"count_wraps"}, {FALSE}, {FALSE}, {FALSE})

NextBackoff ==
    \/ Setup({ConfigFor("ble")})
    \/ LoopStep(BackoffSteps, BackoffIns, MaxIterBackoff)
    \/ BleScanResult(PresenterCands)
    \/ BleScanComplete

SpecBackoff == Init /\ [][NextBackoff]_vars

----------------------------------------------------------------------------
(* C36: the radio backoff is honoured: after a radio failure has scheduled  *)
(* the next attempt with delay d, no scan and no connection attempt is      *)
(* started on the radio link before d has elapsed; so after five or more    *)
(* failures in a row two radio attempts are at least BLE_MAX_DELAY apart.   *)

C36_AttemptStarted(o) ==
    Calls(o, "BLEScan.start") # {} \/ Calls(o, "BLEClient.connect") # {}

\* _lastReconnect holds the time the pending retry is due at, 0 when none
\* is pending.
C36_RetryPending == ble.lastReconnect > 0

C36_BackoffHonoured ==
    [][(TickEnds /\ C36_RetryPending /\ C36_AttemptStarted(out')) =>
          now' >= ble.lastReconnect]_vars

\* From the fifth failure in a row on, the iteration that starts an attempt
\* ends BLE_MAX_DELAY or more after the failure.
C36_ThirtySecondsApart ==
    [][(TickEnds /\ C36_RetryPending /\ C36_AttemptStarted(out')
        /\ ble.reconnectAttempts >= 5 /\ ble.lastDelay = BLE_MAX_DELAY) =>
          now' - (ble.lastReconnect - ble.lastDelay) >= BLE_MAX_DELAY]_vars

\* What holds: the backoff timer itself never fires early.
C36_TimerNotEarly ==
    [][(TickEnds /\ C36_RetryPending /\ ble'.lastReconnect = 0) =>
          now' >= ble.lastReconnect]_vars

\* A scan has been started with the retry of the fifth failure (or a later
\* one) still pending.
C36_EarlyScan ==
    /\ pc = "loop"
    /\ Calls(out, "BLEScan.start") # {}
    /\ Calls(out, "BLEClient.connect") = {}
    /\ ble.lastReconnect > now
    /\ ble.reconnectAttempts >= 5
    /\ ble.lastDelay = BLE_MAX_DELAY

----------------------------------------------------------------------------
(* C37: the network link never gets stuck: in every reachable state where   *)
(* the WiFi manager is enabled, not connected and not in AP mode, a         *)
(* reconnect is scheduled or a connect attempt is in progress, in           *)
(* particular after a reconnect attempt started from loop() has timed out;  *)
(* so that under a fair loop a further attempt or the escalation follows.   *)

C37_Enabled ==
    /\ pc \in {"loop", "loop_connect"}
    /\ main.currentState = "STATE_CONNECTED"
    /\ main.useWiFi

C37_Down == wifi.state \notin {"WIFI_STATE_CONNECTED", "WIFI_STATE_AP_MODE"}

C37_AttemptInProgress == pc = "loop_connect" /\ wifi.state = "WIFI_STATE_CONNECTING"

C37_NeverStuck ==
    (C37_Enabled /\ C37_Down) => (wifi.reconnectScheduled \/ C37_AttemptInProgress)

\* What holds: a disconnect reported below the ceiling always leaves a
\* retry scheduled, and a scheduled retry that is due is always attempted.
C37_DropSchedules ==
    [][(C37_Enabled /\ wifi'.reconnectAttempts = wifi.reconnectAttempts + 1
        /\ wifi'.reconnectAttempts <= WIFI_MAX_RECONNECT_ATTEMPTS) =>
          wifi'.reconnectScheduled]_vars

C37_DueIsAttempted ==
    [][(C37_Enabled /\ TickBegins /\ pc' # "restarted"
        /\ wifi.reconnectScheduled /\ now' >= wifi.nextReconnect
        /\ wifi.state # "WIFI_STATE_CONNECTED" /\ ~drv.wlConnected) =>
          Calls(out', "WiFi.begin") # {}]_vars

\* The reconnect attempt of loop() has timed out with no disconnect
\* reported during the wait: nothing is scheduled, nothing in progress.
C37_StuckAfterTimeout ==
    /\ C37_Enabled /\ pc = "loop"
    /\ wifi.state = "WIFI_STATE_ERROR"
    /\ ~wifi.reconnectScheduled
    /\ wifi.reconnectAttempts <= WIFI_MAX_RECONNECT_ATTEMPTS

\* The ceiling was passed during the wait of loop()'s attempt, and the
\* timeout then overwrote the AP state: the station is off, nothing is
\* scheduled, and the manager is not in AP mode either.
C37_StuckAfterEscalation ==
    /\ C37_Enabled /\ pc = "loop"
    /\ wifi.state = "WIFI_STATE_ERROR"
    /\ ~wifi.reconnectScheduled
    /\ wifi.reconnectAttempts > WIFI_MAX_RECONNECT_ATTEMPTS
    /\ ~drv.staStarted

----------------------------------------------------------------------------
(* SpecWrap: an unconfigured device sits in configuration mode until        *)
(* millis() is about to wrap (49.7 days after boot), and a form is saved    *)
(* shortly before the wrap.  While it sits there, loop() polls the buttons  *)
(* and the portal and changes nothing; the model leaves that period out:    *)
(* from then on its times and the device's differ by a constant, millis()   *)
(* is 0 at the time wrapAt, and what was stored before the period is as far *)
(* above 0 as it was.                                                       *)

MaxIterWrap == 6

\* How long before the wrap the period ends.
WrapLeads == {1000, 3000, 4000}

WrapSteps == {500, 1000, 2500}

WrapIns == LoopInputs({NoEvent}, {"ok"}, {"count_wraps"}, {FALSE}, {FALSE}, {FALSE, TRUE})

\* The stored times as they compare after the period: each as far after the
\* wrap as it was after boot.
Rebase(s, w) ==
    [s EXCEPT !.drv.wrapAt = w,
              !.main.restartTime = @ + w, !.main.notificationTime = @ + w,
              !.main.btnBootPressTime = @ + w, !.main.lastBlink = @ + w,
              !.wifi.connectStart = @ + w, !.wifi.nextReconnect = @ + w,
              !.wifi.lastRssiCheck = @ + w,
              !.ws.lastReconnect = @ + w, !.ws.lastHeartbeat = @ + w,
              !.ws.lastActivity = @ + w,
              !.ble.lastScanTime = @ + w, !.ble.lastReconnect = @ + w,
              !.ble.lastDisplayUpdate = @ + w]

LongIdle(leads) ==
    /\ pc = "loop"
    /\ main.currentState = "STATE_AP_MODE"
    /\ ~main.shouldRestart /\ ~main.btnBootPressed /\ ~main.btnUserPressed
    /\ drv.wrapAt = 0
    /\ \E lead \in leads : Commit(Rebase(Fresh, now + lead))
    /\ UNCHANGED iter

NextWrap ==
    \/ Setup({NoConfig})
    \/ LongIdle(WrapLeads)
    \/ LoopStep(WrapSteps, WrapIns, MaxIterWrap)
    \/ BootButtonPress

SpecWrap == Init /\ [][NextWrap]_vars

----------------------------------------------------------------------------
(* C38: a scheduled action is not executed before its delay has elapsed,    *)
(* also when millis() wraps between the scheduling and the execution: the   *)
(* WiFi reconnect, the BLE reconnect and the restart after a save each fire *)
(* no earlier than their schedule time plus their delay, and a BLE          *)
(* reconnect whose deadline is 0 modulo 2^32 is still executed.             *)

\* The restart after a save: an iteration restarts the device for a save
\* only when RESTART_DELAY has passed since the save.
C38_RestartNotEarly ==
    (TickBegins /\ main.shouldRestart /\ pc' = "restarted"
     /\ Calls(out', "Storage.clearConfig") = {}) =>
        now' >= main.restartTime

\* The WiFi reconnect: scheduled now, it is not due d ms later for any d
\* below the backoff.
C38_WifiScheduled(b) ==
    WifiScheduleRetry([Fresh EXCEPT !.wifi.currentBackoff = b])

C38_WifiNotEarly ==
    \A b \in {WIFI_MIN_BACKOFF, WIFI_MAX_BACKOFF} : \A d \in {1, WIFI_MIN_BACKOFF} :
        d < C38_WifiScheduled(b).wifi.currentBackoff =>
            ~WifiReconnectDue([C38_WifiScheduled(b) EXCEPT !.now = @ + d])

\* The BLE reconnect: scheduled now after the first failure, the backoff
\* block does not raise the scan request d ms later for d below the delay,
\* and does at the delay.
C38_BleScheduled ==
    BleScheduleReconnect([Fresh EXCEPT !.ble.connected = FALSE, !.ble.doScan = FALSE,
                                       !.ble.reconnectAttempts = 0], "count_wraps")

C38_BlePolled(d) == BleLoopBackoff([C38_BleScheduled EXCEPT !.now = @ + d])

C38_BleNotEarly ==
    \A d \in {1, BLE_RECONNECT_DELAY - 1} : ~C38_BlePolled(d).ble.doScan

C38_BleRunsWhenDue == C38_BlePolled(BLE_RECONNECT_DELAY).ble.doScan

C38_RestartWaits == [][C38_RestartNotEarly]_vars

C38_NothingEarly ==
    /\ [](C38_WifiNotEarly /\ C38_BleNotEarly /\ C38_BleRunsWhenDue)
    /\ C38_RestartWaits

\* Without a wrap in between all of it holds.
C38_HoldsWithoutWrap ==
    /\ [](drv.wrapAt = 0 => (C38_WifiNotEarly /\ C38_BleNotEarly /\ C38_BleRunsWhenDue))
    /\ [][(BeforeWrap(Cur, now') = BeforeWrap(Cur, main.restartTime)
           => C38_RestartNotEarly)]_vars

\* The device has restarted for a save less than RESTART_DELAY after it.
C38_RestartedEarly ==
    /\ pc = "restarted"
    /\ main.shouldRestart
    /\ Calls(out, "Storage.clearConfig") = {}
    /\ now < main.restartTime
    /\ main.restartTime >= drv.wrapAt /\ drv.wrapAt > 0

\* A BLE retry whose deadline is 0 modulo 2^32 would be scheduled now.
C38_BleDeadlineZero ==
    /\ drv.wrapAt > 0
    /\ C38_BleScheduled.ble.lastReconnect = drv.wrapAt

----------------------------------------------------------------------------
(* C39: a user dismiss removes only the notification that was active when   *)
(* the button was pressed: when the USER interrupt fires while n1 is active *)
(* and n2 arrives before the press is handled, n2 is still the active       *)
(* notification after the press has been handled.                           *)

\* A notification arrives from the BLE host task while one is active and a
\* press of the USER button is waiting for handleButtons.
C39_ArrivesOverPendingPress ==
    /\ pc = "loop" /\ ~TickBegins
    /\ main.btnUserPressed /\ main.hasActiveNotification
    /\ Calls(out', "Display.showNotification") # {}
    /\ main'.currentNotification # main.currentNotification

\* The iteration of loop() that handles the press, half a second later.
C39_Handled(s) == loop([s EXCEPT !.now = @ + 500], CHOOSE in \in QuietIns : TRUE)

C39_NewerSurvives ==
    C39_ArrivesOverPendingPress =>
        /\ C39_Handled(Fresh').main.hasActiveNotification
        /\ C39_Handled(Fresh').disp.view = "notification"

C39_DismissSparesNewer == [][C39_NewerSurvives]_vars

\* The press is still waiting after the arrival: showNotification leaves the
\* flag of the interrupt as it is.
C39_PressOutlivesArrival ==
    [][C39_ArrivesOverPendingPress => main'.btnUserPressed]_vars

\* What the handling of a press does: whatever is active then is dismissed.
C39_PressDismissesWhateverIsActive ==
    [][(TickBegins /\ main.btnUserPressed) =>
           ~main'.btnUserPressed /\ ~main'.hasActiveNotification]_vars

\* n2 has taken the place of n1 while the press was waiting, and the press
\* is still waiting.
C39_NewerUnderPendingPress ==
    /\ pc = "loop"
    /\ main.btnUserPressed /\ main.hasActiveNotification
    /\ Calls(out, "Display.showNotification") # {}
    /\ ~C39_Handled(Fresh).main.hasActiveNotification

----------------------------------------------------------------------------
(* C40: while a notification is active the notification view is the last    *)
(* view drawn: no connection-status, idle, BLE scanning, found, connecting  *)
(* or error view and no weak-signal view is drawn over it by any            *)
(* transport's loop or callback between its show and its dismiss.           *)

C40_NotificationOnTop ==
    (Running /\ main.hasActiveNotification) => disp.view = "notification"

\* What updateConnectionStatus guards: the idle view is not drawn over an
\* active notification.
C40_NoIdleOver ==
    (Running /\ main.hasActiveNotification) => disp.view # "idle"

\* The radio link's scanning view is on the screen while a notification is
\* active.
C40_ScanViewOver ==
    /\ pc = "loop"
    /\ main.hasActiveNotification
    /\ disp.view = "bleScanning"

\* The weak-signal check of WifiMgr.loop, made with a weak signal while a
\* notification is active, draws its banner over the notification view.
C40_BannerOver ==
    /\ pc = "loop"
    /\ main.hasActiveNotification
    /\ disp.view = "notification"
    /\ wifi.state = "WIFI_STATE_CONNECTED"
    /\ Calls(WifiRssiCheck([Fresh EXCEPT !.now = @ + RSSI_CHECK_INTERVAL + 1], TRUE).out,
             "Display.showWeakSignal") # {}

====
